---- MODULE Spec2Model ----
(***************************************************************************)
(* Model of the canvas/webview synchronisation plugin:                     *)
(*   - CanvasPolling (interval timer, doPollingWork, one-time init),       *)
(*   - saveAllWebviewUrls (CanvasSaveHelper),                              *)
(*   - ModelSwitcher.addAndSwitchModel / injectJSForModelClick,            *)
(*   - AddCanvasLinkNodePlugin.handleBackspace (deletion interceptor),     *)
(*   - parseTransformToXY and the inline readings of a transform string.   *)
(* Lengths are integers in quarter pixels, so the 0.5 px tolerance of the  *)
(* geometry comparison is 2 units and 0.25 px / 0.5 px offsets exist.      *)
(***************************************************************************)
EXTENDS Integers, Sequences, FiniteSets, TLC

\* ------------------------------------------------------------------ bounds
\* asynchronous calls (passes, node creations) begun in one behaviour
MaxOps == 2
\* steps the environment (user, host, other writers) takes in one behaviour
MaxEnv == 1
\* calls of CanvasPolling.start() that create a timer in one behaviour
MaxStarts == 2
MaxKeys == 1     \* key events in a behaviour
MaxLoads == 2    \* times the plugin is loaded
MaxDepth == 3    \* nested dispatchEvent calls
MaxOff == 2      \* quarter pixels an element is off a record, either way
MaxFns == 2      \* functions in a chained transform
MaxRecs == 2     \* records of a document a pass is run on, on its own
MaxEls == 2      \* elements of a page a pass is run on, on its own

\* ------------------------------------------------------- program constants
Px(n) == 4 * n
\* Math.abs(...) < 0.5
Tol == Px(1) \div 2
Undef == "<undefined>"
linkUrl == "https://chatgpt.com"
ClickDelay == 1000
DeleteDelay == 2000
InjectDelay == 2000
UrlAbc == "https://chatgpt.com/c/abc"
UrlOther == "https://example.org/"
Blank == " "
\* const x = 200, y = -1000, w = 760, h = 800
NewGeom == [x |-> Px(200), y |-> 0 - Px(1000), width |-> Px(760), height |-> Px(800)]
OldGeom == [x |-> 0, y |-> 0, width |-> Px(400), height |-> Px(300)]

\* --------------------------------------------------------------- strings
Abs(n) == IF n < 0 THEN 0 - n ELSE n

IsSpace(c) == c = " "

RECURSIVE TrimLeft(_)
TrimLeft(s) ==
  IF Len(s) > 0 /\ IsSpace(SubSeq(s, 1, 1)) THEN TrimLeft(SubSeq(s, 2, Len(s))) ELSE s

RECURSIVE TrimRight(_)
TrimRight(s) ==
  IF Len(s) > 0 /\ IsSpace(SubSeq(s, Len(s), Len(s)))
  THEN TrimRight(SubSeq(s, 1, Len(s) - 1)) ELSE s

\* String.prototype.trim
Trim(s) == TrimRight(TrimLeft(s))

\* String.prototype.includes
Includes(s, sub) ==
  \E i \in 1..(Len(s) - Len(sub) + 1) : SubSeq(s, i, i + Len(sub) - 1) = sub

\* JavaScript truthiness of an optional string property
Truthy(v) == v # Undef /\ v # ""

\* ------------------------------------------------------------ data model
\* CanvasNode: id, type, url?, x, y, width, height, and open extension keys
\* (lastUrl, color).
Node(id, type, url, lastUrl, g) ==
  [id |-> id, type |-> type, url |-> url, lastUrl |-> lastUrl, color |-> Undef,
   x |-> g.x, y |-> g.y, width |-> g.width, height |-> g.height]

\* CanvasData
Data(nodes) ==
  [nodes |-> nodes, edges |-> IF Len(nodes) > 1 THEN <<"edge">> ELSE <<>>]

\* a rendered .canvas-node: the translation parsed from its computed
\* transform, its computed width and height, its <webview> (if any), whether
\* that view offers executeJavaScript, and the view's src
Element(g, dx, webview, exec, src) ==
  [x |-> g.x + dx, y |-> g.y, width |-> g.width, height |-> g.height,
   webview |-> webview, exec |-> exec, src |-> src]

Shift(g, d) == [g EXCEPT !.x = @ + d]

VARIABLES
  activeFile,      \* extension of the workspace's active file, or "none"
  file,            \* content of the canvas file: [ok, nodes, edges]
  dom,             \* the .canvas-node elements, in document order
  intervalId,      \* CanvasPolling.intervalId (0 is null)
  timers,          \* live interval timers of the window
  nextTimer,       \* next id window.setInterval returns
  hasInitialized,  \* CanvasPolling.hasInitialized
  tasks,           \* asynchronous calls in flight, in the order they began
  injects,         \* pending 2000 ms timers of addAndSwitchModel (indexToClick)
  now,             \* the latest value Date.now() returned
  opsLeft,         \* asynchronous calls that may still begin
  envLeft,         \* environment steps left
  pushes,          \* per record id: assignments of a stored address to a view
  calm,            \* passes run back to back with nothing else happening
  last             \* what the latest step of a call did

VARIABLES
  loaded,          \* the plugin is loaded
  listeners,       \* keydown capture listeners on the document
  redelete,        \* the plugin is the variant that re-invokes native deletion
  hasCanvas,       \* workspace.activeLeaf has a view with a canvas
  canvasNodes,     \* the nodes on the canvas (indices into KeyNodes)
  selection,       \* canvas.selection, in insertion order
  timeouts,        \* pending setTimeout timers of handleBackspace
  execs,           \* executeJavaScript calls of the interceptor
  fired,           \* what the timers that fired did
  kev,             \* the latest key event and what handling it did
  keysLeft         \* key events that may still happen

keyVars == <<loaded, listeners, redelete, hasCanvas, canvasNodes, selection,
             timeouts, execs, fired, kev, keysLeft>>

VARIABLES
  probe            \* a call of a pure function: its arguments and its results

pollVars == <<activeFile, file, intervalId, timers, nextTimer, hasInitialized,
              tasks, injects, opsLeft, pushes, calm, last, probe>>

vars == <<activeFile, file, dom, intervalId, timers, nextTimer, hasInitialized,
          tasks, injects, now, opsLeft, envLeft, pushes, calm, last, keyVars,
          probe>>

\* ------------------------------------------------------- geometry matching
\* Math.abs(a - b) < 0.5
Near(a, b) == Abs(a - b) < Tol

\* the four comparisons of findAllCanvasNodesInDom
Matches(node, el) ==
  /\ Near(node.x, el.x)
  /\ Near(node.y, el.y)
  /\ Near(node.width, el.width)
  /\ Near(node.height, el.height)

\* indices of the elements matching a record, in document order
RECURSIVE MatchFrom(_, _, _)
MatchFrom(node, d, e) ==
  IF e > Len(d) THEN <<>>
  ELSE (IF Matches(node, d[e]) THEN <<e>> ELSE <<>>) \o MatchFrom(node, d, e + 1)

findAllCanvasNodesInDom(node, d) == MatchFrom(node, d, 1)

\* canvasData.nodes.find(n => n.type === 'link' && <four comparisons>):
\* position of the first such record, 0 when there is none
RECURSIVE FindFrom(_, _, _)
FindFrom(nodes, el, i) ==
  IF i > Len(nodes) THEN 0
  ELSE IF nodes[i].type = "link" /\ Matches(nodes[i], el) THEN i
  ELSE FindFrom(nodes, el, i + 1)

FindLinkNode(nodes, el) == FindFrom(nodes, el, 1)

\* ------------------------------------------------------------ file content
\* JSON.parse of the file's text: fails on text that is no JSON
ParseOk(f) == f.ok
Parse(f) == [nodes |-> f.nodes, edges |-> f.edges]
\* a serialisation that writes the declared fields of CanvasNode and the
\* address last shown, and no other
StringifyDeclaredFields(data) ==
  [ok |-> TRUE,
   nodes |-> [k \in 1..Len(data.nodes) |-> [data.nodes[k] EXCEPT !.color = Undef]],
   edges |-> data.edges]

\* JSON.stringify(canvasData, null, 2): the whole document
Stringify(data) == [ok |-> TRUE, nodes |-> data.nodes, edges |-> data.edges]

\* --------------------------------------------- CanvasPolling.doPollingWork
\* The state of the synchronous part of a pass: the parsed document, the
\* elements, the once-initialized set, the changed flag and what was done.
PassState(nodes, d, init) ==
  [nodes |-> nodes, dom |-> d, init |-> init, changed |-> FALSE, ev |-> <<>>]

\* InitStep without hasInitialized.add(node.id)
InitStepNoMark(st, i, e) ==
  LET node == st.nodes[i] IN
  IF node.id \in st.init THEN st
  ELSE IF Truthy(node.lastUrl) /\ Trim(node.lastUrl) # ""
       THEN [st EXCEPT !.dom[e].src = node.lastUrl,
                       !.ev = Append(@, [t |-> "push", node |-> i, el |-> e,
                                         val |-> node.lastUrl])]
       ELSE st

\* a one-time init that marks a record only when it pushes its address
InitStepMarkOnPush(st, i, e) ==
  LET node == st.nodes[i] IN
  IF node.id \in st.init THEN st
  ELSE IF Truthy(node.lastUrl) /\ Trim(node.lastUrl) # ""
       THEN [st EXCEPT !.init = @ \cup {node.id},
                       !.dom[e].src = node.lastUrl,
                       !.ev = Append(@, [t |-> "push", node |-> i, el |-> e,
                                         val |-> node.lastUrl])]
       ELSE st

\* one-time init of the loop body: marks the record, and pushes a stored
\* address that is present and not blank into the view
InitStep(st, i, e) ==
  LET node == st.nodes[i] IN
  IF node.id \in st.init THEN st
  ELSE LET marked == [st EXCEPT !.init = @ \cup {node.id}] IN
       IF Truthy(node.lastUrl) /\ Trim(node.lastUrl) # ""
       THEN [marked EXCEPT !.dom[e].src = node.lastUrl,
                           !.ev = Append(@, [t |-> "push", node |-> i, el |-> e,
                                             val |-> node.lastUrl])]
       ELSE marked

\* ReadBack that marks the document changed whatever it read
ReadBackAlwaysDirty(st, i, e) ==
  LET updatedSrc == st.dom[e].src IN
  [st EXCEPT !.nodes[i].lastUrl = updatedSrc, !.changed = TRUE,
             !.ev = IF st.nodes[i].lastUrl # updatedSrc
                    THEN Append(@, [t |-> "set", node |-> i, el |-> e,
                                    val |-> updatedSrc])
                    ELSE @]

\* reads webview.src back into node.lastUrl
ReadBack(st, i, e) ==
  LET updatedSrc == st.dom[e].src IN
  IF st.nodes[i].lastUrl # updatedSrc
  THEN [st EXCEPT !.nodes[i].lastUrl = updatedSrc, !.changed = TRUE,
                  !.ev = Append(@, [t |-> "set", node |-> i, el |-> e,
                                    val |-> updatedSrc])]
  ELSE st

\* PollElement with the read-back ahead of the one-time init
PollElementReadFirst(st, i, e) ==
  IF ~st.dom[e].webview THEN st
  ELSE InitStep(ReadBack(st, i, e), i, e)

\* body of the loop over matchingEls
PollElement(st, i, e) ==
  IF ~st.dom[e].webview THEN st
  ELSE ReadBack(InitStep(st, i, e), i, e)

\* the loop over matchingEls run from the last element to the first
RECURSIVE PollElementsLastFirst(_, _, _)
PollElementsLastFirst(st, i, els) ==
  IF els = <<>> THEN st
  ELSE PollElement(PollElementsLastFirst(st, i, Tail(els)), i, Head(els))

\* the loop over matchingEls, in the order of the document's elements
RECURSIVE PollElements(_, _, _)
PollElements(st, i, els) ==
  IF els = <<>> THEN st
  ELSE PollElements(PollElement(st, i, Head(els)), i, Tail(els))

\* PollNode that marks a record initialized before looking for its elements
PollNodeMarksFirst(st, i) ==
  IF st.nodes[i].type # "link" THEN st
  ELSE PollElements([st EXCEPT !.init = @ \cup {st.nodes[i].id}], i,
                    findAllCanvasNodesInDom(st.nodes[i], st.dom))

\* a loop body run for the records of every type
PollNodeAnyType(st, i) ==
  PollElements(st, i, findAllCanvasNodesInDom(st.nodes[i], st.dom))

\* body of the loop over linkNodes (records of another type are filtered out)
PollNode(st, i) ==
  IF st.nodes[i].type # "link" THEN st
  ELSE PollElements(st, i, findAllCanvasNodesInDom(st.nodes[i], st.dom))

\* the loop over linkNodes run from the last record to the first
RECURSIVE PollNodesBackwards(_, _)
PollNodesBackwards(st, i) ==
  IF i > Len(st.nodes) THEN st ELSE PollNode(PollNodesBackwards(st, i + 1), i)

\* the loop over linkNodes, in the order of canvasData.nodes
RECURSIVE PollNodes(_, _)
PollNodes(st, i) ==
  IF i > Len(st.nodes) THEN st ELSE PollNodes(PollNode(st, i), i + 1)

\* the two loops of doPollingWork over a freshly parsed document
PollLoop(nodes, d, init) == PollNodes(PassState(nodes, d, init), 1)

\* ------------------------------------------------------ saveAllWebviewUrls
\* SaveElement that stores the address in lastUrl, as the polling engine does
SaveElementLastUrl(st, e) ==
  IF ~st.dom[e].webview THEN st
  ELSE LET currentSrc == st.dom[e].src
           i == FindLinkNode(st.nodes, st.dom[e]) IN
       IF i = 0 THEN st
       ELSE IF st.nodes[i].lastUrl # currentSrc
       THEN [st EXCEPT !.nodes[i].lastUrl = currentSrc, !.changed = TRUE,
                       !.ev = Append(@, [t |-> "set", node |-> i, el |-> e,
                                         val |-> currentSrc])]
       ELSE st

\* body of the loop over allDomNodes: the first link record matching the
\* element takes the view's src as its url
SaveElement(st, e) ==
  IF ~st.dom[e].webview THEN st
  ELSE LET currentSrc == st.dom[e].src
           i == FindLinkNode(st.nodes, st.dom[e]) IN
       IF i = 0 THEN st
       ELSE IF st.nodes[i].url # currentSrc
       THEN [st EXCEPT !.nodes[i].url = currentSrc, !.changed = TRUE,
                       !.ev = Append(@, [t |-> "set", node |-> i, el |-> e,
                                         val |-> currentSrc])]
       ELSE st

RECURSIVE SaveElements(_, _)
SaveElements(st, e) ==
  IF e > Len(st.dom) THEN st ELSE SaveElements(SaveElement(st, e), e + 1)

SaveLoop(nodes, d, init) == SaveElements(PassState(nodes, d, init), 1)

\* ------------------------------------------------------------------ calls
\* an asynchronous call awaiting its read
Task(kind, idx) ==
  [pc |-> "reading", kind |-> kind, nodes |-> <<>>, edges |-> <<>>,
   snap |-> <<>>, seen |-> <<>>, idx |-> idx]

Remove(q, s) == SubSeq(q, 1, s - 1) \o SubSeq(q, s + 1, Len(q))

InFlight(kind) == {s \in 1..Len(tasks) : tasks[s].kind = kind}

Step(op, kind, outcome, notice) ==
  [op |-> op, kind |-> kind, outcome |-> outcome, notice |-> notice,
   snap |-> <<>>, dom0 |-> <<>>, init0 |-> {}, nodes |-> <<>>, ev |-> <<>>,
   quiet |-> FALSE, overlap |-> FALSE, edges0 |-> <<>>]

NoStep == Step("none", "none", "none", "")

\* ------------------------------------------------------------- key events
\* a KeyboardEvent with the flags its listeners can set
KeyEvent(isTrusted, key, ctrlKey, shiftKey) ==
  [isTrusted |-> isTrusted, key |-> key, ctrlKey |-> ctrlKey,
   shiftKey |-> shiftKey, defaultPrevented |-> FALSE,
   propagationStopped |-> FALSE, immediateStopped |-> FALSE]

\* what handling one event did, in order
NoFx == [handled |-> 0, synth |-> 0, trace |-> <<>>, timers |-> <<>>,
         calls |-> <<>>, depth |-> 0, overflow |-> FALSE]

NoKey == [evt |-> KeyEvent(FALSE, "none", FALSE, FALSE), fx |-> NoFx,
          sel0 |-> <<>>, at |-> 0, listeners |-> 0, canvas |-> FALSE,
          default |-> FALSE, loaded |-> FALSE]

NoProbe == [kind |-> "none"]

\* the interceptor is not in play, and no pure function is being probed
KeysIdle ==
  /\ probe = NoProbe
  /\ loaded = FALSE
  /\ listeners = 0
  /\ redelete = FALSE
  /\ hasCanvas = TRUE
  /\ canvasNodes = {}
  /\ selection = <<>>
  /\ timeouts = <<>>
  /\ execs = <<>>
  /\ fired = <<>>
  /\ kev = NoKey
  /\ keysLeft = 0

\* ------------------------------------------------------------ initial state
Ids == {"n1", "n2", "t1"} \cup {ToString(k) : k \in 1..(MaxOps + 1)}

\* two views of one record showing different addresses
SceneTabs ==
  [nodes |-> <<Node("n1", "link", UrlOther, Undef, OldGeom)>>,
   dom |-> <<Element(OldGeom, 0, TRUE, TRUE, UrlOther),
             Element(OldGeom, 1, TRUE, TRUE, UrlAbc)>>]

\* a reopened canvas: stored addresses, a view 0.25 px off its record, a view
\* exactly 0.5 px off its record, a text card
SceneReload ==
  [nodes |-> <<Node("t1", "text", Undef, Undef, NewGeom),
               Node("n1", "link", linkUrl, UrlAbc, OldGeom),
               Node("n2", "link", linkUrl, Blank, NewGeom)>>,
   dom |-> <<Element(OldGeom, 1, TRUE, TRUE, linkUrl),
             Element(NewGeom, Tol, TRUE, TRUE, UrlOther)>>]

\* an empty canvas; a second tab shows a card of another canvas at the place
\* new nodes are created
SceneEmpty ==
  [nodes |-> <<>>, dom |-> <<Element(NewGeom, 0, TRUE, TRUE, UrlAbc)>>]

\* a canvas with a card already at the place new nodes are created, rendered
\* without and with an embedded view
SceneCrowded ==
  [nodes |-> <<Node("n1", "link", UrlOther, Blank, NewGeom)>>,
   dom |-> <<Element(NewGeom, 0, FALSE, FALSE, ""),
             Element(NewGeom, 0, TRUE, FALSE, UrlAbc)>>]

\* a canvas with nothing rendered
SceneBare == [nodes |-> <<Node("n1", "link", linkUrl, Undef, OldGeom)>>, dom |-> <<>>]

Scenes == {SceneTabs, SceneReload, SceneEmpty, SceneCrowded, SceneBare}

NoCalm == [kind |-> "none", done |-> FALSE, open |-> FALSE]

Init ==
  /\ activeFile = "canvas"
  /\ intervalId = 0
  /\ timers = {}
  /\ nextTimer = 1
  /\ hasInitialized = {}
  /\ tasks = <<>>
  /\ injects = <<>>
  /\ now = 1
  /\ opsLeft = MaxOps
  /\ envLeft = MaxEnv
  /\ pushes = [id \in Ids |-> 0]
  /\ calm = NoCalm
  /\ last = NoStep
  /\ \E sc \in Scenes :
       /\ file = Stringify(Data(sc.nodes))
       /\ dom = sc.dom
  /\ KeysIdle

\* --------------------------------------------------- back-to-back tracking
\* a pass begins: back to back only when nothing else is in flight
CalmStart(kind) ==
  IF tasks = <<>> /\ injects = <<>>
  THEN [kind |-> kind, done |-> calm.kind = kind /\ calm.done, open |-> TRUE]
  ELSE NoCalm
\* a pass ended normally
CalmDone(c) == IF c.open THEN [c EXCEPT !.done = TRUE, !.open = FALSE] ELSE c
\* a pass of this kind completed just before the running one, nothing between
Quiet(kind) == calm.open /\ calm.done /\ calm.kind = kind

\* ---------------------------------------------------------- CanvasPolling
\* a start() without the check of intervalId
StartUnguarded ==
  /\ nextTimer <= MaxStarts
  /\ intervalId' = nextTimer
  /\ timers' = timers \cup {nextTimer}
  /\ nextTimer' = nextTimer + 1
  /\ UNCHANGED <<activeFile, file, dom, hasInitialized, tasks, injects, now,
                 opsLeft, envLeft, pushes, calm, last>>
  /\ UNCHANGED <<keyVars, probe>>

\* start()
Start ==
  /\ intervalId # 0 \/ nextTimer <= MaxStarts
  /\ IF intervalId # 0
     THEN UNCHANGED <<intervalId, timers, nextTimer>>
     ELSE /\ intervalId' = nextTimer
          /\ timers' = timers \cup {nextTimer}
          /\ nextTimer' = nextTimer + 1
  /\ UNCHANGED <<activeFile, file, dom, hasInitialized, tasks, injects, now,
                 opsLeft, envLeft, pushes, calm, last>>
  /\ UNCHANGED <<keyVars, probe>>

\* stop()
Stop ==
  /\ IF intervalId # 0
     THEN /\ timers' = timers \ {intervalId}
          /\ intervalId' = 0
     ELSE UNCHANGED <<intervalId, timers>>
  /\ UNCHANGED <<activeFile, file, dom, nextTimer, hasInitialized, tasks, injects,
                 now, opsLeft, envLeft, pushes, calm, last>>
  /\ UNCHANGED <<keyVars, probe>>

PushCount(ev, id, nodes) ==
  Cardinality({k \in 1..Len(ev) : ev[k].t = "push" /\ nodes[ev[k].node].id = id})

\* PollTick without the check of the active file
PollTickAnyFile(t) ==
  /\ t \in timers
  /\ opsLeft > 0
  /\ opsLeft' = opsLeft - 1
  /\ tasks' = Append(tasks, Task("poll", 0))
  /\ last' = [Step("begin", "poll", "reading", "") EXCEPT
                !.overlap = InFlight("poll") # {}]
  /\ calm' = CalmStart("poll")
  /\ UNCHANGED <<activeFile, file, dom, intervalId, timers, nextTimer,
                 hasInitialized, injects, now, envLeft, pushes>>
  /\ UNCHANGED <<keyVars, probe>>

\* the interval timer fires: doPollingWork up to its await of the read
PollTick(t) ==
  /\ t \in timers
  /\ opsLeft > 0
  /\ opsLeft' = opsLeft - 1
  /\ IF activeFile # "canvas"
     THEN /\ last' = [Step("begin", "poll", "nofile", "") EXCEPT
                        !.init0 = hasInitialized,
                        !.overlap = InFlight("poll") # {}]
          /\ calm' = CalmDone(CalmStart("poll"))
          /\ UNCHANGED tasks
     ELSE /\ tasks' = Append(tasks, Task("poll", 0))
          /\ last' = [Step("begin", "poll", "reading", "") EXCEPT
                        !.overlap = InFlight("poll") # {}]
          /\ calm' = CalmStart("poll")
  /\ UNCHANGED <<activeFile, file, dom, intervalId, timers, nextTimer,
                 hasInitialized, injects, now, envLeft, pushes>>
  /\ UNCHANGED <<keyVars, probe>>

\* the interval timer fires, as it does for as long as it is live: at most
\* MaxOps passes are in flight at a time
PollTickOn(t) ==
  /\ t \in timers
  /\ Len(tasks) < MaxOps
  /\ IF activeFile # "canvas"
     THEN /\ last' = [Step("begin", "poll", "nofile", "") EXCEPT
                        !.init0 = hasInitialized,
                        !.overlap = InFlight("poll") # {}]
          /\ calm' = CalmDone(CalmStart("poll"))
          /\ UNCHANGED tasks
     ELSE /\ tasks' = Append(tasks, Task("poll", 0))
          /\ last' = [Step("begin", "poll", "reading", "") EXCEPT
                        !.overlap = InFlight("poll") # {}]
          /\ calm' = CalmStart("poll")
  /\ UNCHANGED <<activeFile, file, dom, intervalId, timers, nextTimer,
                 hasInitialized, injects, now, opsLeft, envLeft, pushes>>
  /\ UNCHANGED <<keyVars, probe>>

\* a read whose pass ends at once when the timer has been cleared meanwhile
PollReadUnlessStopped(s, io) ==
  /\ s \in InFlight("poll") /\ tasks[s].pc = "reading"
  /\ tasks' = Remove(tasks, s)
  /\ last' = [Step("read", "poll", IF intervalId = 0 THEN "nochange" ELSE "readfail",
                   "") EXCEPT !.dom0 = dom, !.init0 = hasInitialized]
  /\ calm' = NoCalm
  /\ UNCHANGED <<dom, hasInitialized, pushes>>
  /\ UNCHANGED <<activeFile, file, intervalId, timers, nextTimer, injects, now,
                 opsLeft, envLeft>>
  /\ UNCHANGED <<keyVars, probe>>

\* the read settles: readCanvasData, the two loops, and the decision to save
PollRead(s, io) ==
  /\ s \in InFlight("poll") /\ tasks[s].pc = "reading"
  /\ IF ~io \/ ~ParseOk(file)
     THEN /\ tasks' = Remove(tasks, s)
          /\ last' = [Step("read", "poll", "readfail", "") EXCEPT
                        !.dom0 = dom, !.init0 = hasInitialized]
          /\ calm' = NoCalm
          /\ UNCHANGED <<dom, hasInitialized, pushes>>
     ELSE LET canvasData == Parse(file)
              r == PollLoop(canvasData.nodes, dom, hasInitialized) IN
          /\ dom' = r.dom
          /\ hasInitialized' = r.init
          /\ pushes' = [id \in Ids |->
                          pushes[id] + PushCount(r.ev, id, canvasData.nodes)]
          /\ tasks' = IF r.changed
                      THEN [tasks EXCEPT ![s] =
                              [@ EXCEPT !.pc = "writing", !.nodes = r.nodes,
                                        !.edges = canvasData.edges,
                                        !.snap = canvasData.nodes, !.seen = dom]]
                      ELSE Remove(tasks, s)
          /\ last' = [Step("read", "poll",
                           IF r.changed THEN "write" ELSE "nochange", "") EXCEPT
                        !.snap = canvasData.nodes, !.dom0 = dom,
                        !.init0 = hasInitialized, !.nodes = r.nodes, !.ev = r.ev,
                        !.quiet = Quiet("poll")]
          /\ calm' = IF r.changed THEN calm ELSE CalmDone(calm)
  /\ UNCHANGED <<activeFile, file, intervalId, timers, nextTimer, injects, now,
                 opsLeft, envLeft>>
  /\ UNCHANGED <<keyVars, probe>>

\* a write that is made only if the document is still as the pass read it
PollWriteIfUntouched(s, io) ==
  /\ s \in InFlight("poll") /\ tasks[s].pc = "writing"
  /\ file' = IF io /\ file.ok /\ file.nodes = tasks[s].snap
             THEN Stringify(tasks[s]) ELSE file
  /\ tasks' = Remove(tasks, s)
  /\ last' = [Step("write", "poll", IF io THEN "saved" ELSE "writefail", "") EXCEPT
                !.snap = tasks[s].snap, !.dom0 = tasks[s].seen,
                !.nodes = tasks[s].nodes, !.edges0 = tasks[s].edges]
  /\ calm' = IF io THEN CalmDone(calm) ELSE NoCalm
  /\ UNCHANGED <<activeFile, dom, intervalId, timers, nextTimer, hasInitialized,
                 injects, now, opsLeft, envLeft, pushes>>
  /\ UNCHANGED <<keyVars, probe>>

\* the write settles: saveCanvasData
PollWrite(s, io) ==
  /\ s \in InFlight("poll") /\ tasks[s].pc = "writing"
  /\ file' = IF io THEN Stringify(tasks[s]) ELSE file
  /\ tasks' = Remove(tasks, s)
  /\ last' = [Step("write", "poll", IF io THEN "saved" ELSE "writefail", "") EXCEPT
                !.snap = tasks[s].snap, !.dom0 = tasks[s].seen,
                !.nodes = tasks[s].nodes, !.edges0 = tasks[s].edges]
  /\ calm' = IF io THEN CalmDone(calm) ELSE NoCalm
  /\ UNCHANGED <<activeFile, dom, intervalId, timers, nextTimer, hasInitialized,
                 injects, now, opsLeft, envLeft, pushes>>
  /\ UNCHANGED <<keyVars, probe>>

\* ------------------------------------------------------ saveAllWebviewUrls
\* the ribbon icon or command: saveAllWebviewUrls up to its await of the read
SaveBegin ==
  /\ opsLeft > 0
  /\ opsLeft' = opsLeft - 1
  /\ IF activeFile # "canvas"
     THEN /\ last' = [Step("begin", "save", "nofile",
                           "No active .canvas file found.") EXCEPT
                        !.init0 = hasInitialized]
          /\ calm' = CalmDone(CalmStart("save"))
          /\ UNCHANGED tasks
     ELSE /\ tasks' = Append(tasks, Task("save", 0))
          /\ last' = Step("begin", "save", "reading", "")
          /\ calm' = CalmStart("save")
  /\ UNCHANGED <<activeFile, file, dom, intervalId, timers, nextTimer,
                 hasInitialized, injects, now, envLeft, pushes>>
  /\ UNCHANGED <<keyVars, probe>>

\* the read settles: parse, the loop over the elements, the decision to save
SaveRead(s, io) ==
  /\ s \in InFlight("save") /\ tasks[s].pc = "reading"
  /\ IF ~io \/ ~ParseOk(file)
     THEN /\ tasks' = Remove(tasks, s)
          /\ last' = [Step("read", "save", "readfail",
                           "Error: Could not read the canvas file.") EXCEPT
                        !.dom0 = dom, !.init0 = hasInitialized]
          /\ calm' = NoCalm
     ELSE IF dom = <<>>
     THEN /\ tasks' = Remove(tasks, s)
          /\ last' = [Step("read", "save", "nodom",
                           "No .canvas-node elements found in DOM.") EXCEPT
                        !.snap = Parse(file).nodes, !.nodes = Parse(file).nodes,
                        !.init0 = hasInitialized, !.quiet = Quiet("save")]
          /\ calm' = CalmDone(calm)
     ELSE LET canvasData == Parse(file)
              r == SaveLoop(canvasData.nodes, dom, hasInitialized) IN
          /\ tasks' = IF r.changed
                      THEN [tasks EXCEPT ![s] =
                              [@ EXCEPT !.pc = "writing", !.nodes = r.nodes,
                                        !.edges = canvasData.edges,
                                        !.snap = canvasData.nodes, !.seen = dom]]
                      ELSE Remove(tasks, s)
          /\ last' = [Step("read", "save",
                           IF r.changed THEN "write" ELSE "nochange",
                           IF r.changed THEN ""
                           ELSE "Nothing changed. All webview URLs already match the JSON.")
                      EXCEPT
                        !.snap = canvasData.nodes, !.dom0 = dom,
                        !.init0 = hasInitialized, !.nodes = r.nodes, !.ev = r.ev,
                        !.quiet = Quiet("save")]
          /\ calm' = IF r.changed THEN calm ELSE CalmDone(calm)
  /\ UNCHANGED <<activeFile, file, dom, intervalId, timers, nextTimer,
                 hasInitialized, injects, now, opsLeft, envLeft, pushes>>
  /\ UNCHANGED <<keyVars, probe>>

\* the write settles
SaveWrite(s, io) ==
  /\ s \in InFlight("save") /\ tasks[s].pc = "writing"
  /\ file' = IF io THEN Stringify(tasks[s]) ELSE file
  /\ tasks' = Remove(tasks, s)
  /\ last' = [Step("write", "save", IF io THEN "saved" ELSE "writefail",
                   IF io THEN "Saved all webview URLs to .canvas JSON!"
                   ELSE "Error: Could not save updated canvas data.") EXCEPT
                !.snap = tasks[s].snap, !.dom0 = tasks[s].seen,
                !.nodes = tasks[s].nodes, !.edges0 = tasks[s].edges]
  /\ calm' = IF io THEN CalmDone(calm) ELSE NoCalm
  /\ UNCHANGED <<activeFile, dom, intervalId, timers, nextTimer, hasInitialized,
                 injects, now, opsLeft, envLeft, pushes>>
  /\ UNCHANGED <<keyVars, probe>>

\* ------------------------------------------- ModelSwitcher.addAndSwitchModel
Models == {"o1-pro", "o3"}

\* the switch over chosenModel; -1 stands for the default branch
IndexToClick(chosenModel) ==
  CASE chosenModel = "4o" -> 0
    [] chosenModel = "o1" -> 1
    [] chosenModel = "o1-pro" -> 3
    [] OTHER -> 0 - 1

\* the modal's choice: addAndSwitchModel up to its await of the read
AddBegin(chosenModel) ==
  /\ opsLeft > 0
  /\ opsLeft' = opsLeft - 1
  /\ IF IndexToClick(chosenModel) < 0
     THEN /\ last' = Step("begin", "add", "unknown", "Unknown model")
          /\ UNCHANGED tasks
     ELSE IF activeFile # "canvas"
     THEN /\ last' = Step("begin", "add", "nofile", "No active .canvas file found.")
          /\ UNCHANGED tasks
     ELSE /\ tasks' = Append(tasks, Task("add", IndexToClick(chosenModel)))
          /\ last' = Step("begin", "add", "reading", "")
  /\ calm' = NoCalm
  /\ UNCHANGED <<activeFile, file, dom, intervalId, timers, nextTimer,
                 hasInitialized, injects, now, envLeft, pushes>>
  /\ UNCHANGED <<keyVars, probe>>

\* a record built without its url
newNodeNoUrl(t) == Node(ToString(t), "link", Undef, Undef, NewGeom)

\* the record addAndSwitchModel builds at clock value t
newLinkNode(t) == Node(ToString(t), "link", linkUrl, Undef, NewGeom)

\* the read settles: parse, push the new record (its id the clock, which has
\* advanced by dt since it was last looked at), start the write
AddRead(s, io, dt) ==
  /\ s \in InFlight("add") /\ tasks[s].pc = "reading"
  /\ IF ~io \/ ~ParseOk(file)
     THEN /\ dt = 0
          /\ tasks' = Remove(tasks, s)
          /\ last' = Step("read", "add", "readfail",
                          "Error: Could not update the canvas.")
          /\ UNCHANGED now
     ELSE LET canvasData == Parse(file)
              grown == Append(canvasData.nodes, newLinkNode(now + dt)) IN
          /\ now' = now + dt
          /\ tasks' = [tasks EXCEPT ![s] =
                         [@ EXCEPT !.pc = "writing", !.nodes = grown,
                                   !.edges = canvasData.edges,
                                   !.snap = canvasData.nodes]]
          /\ last' = [Step("read", "add", "write", "") EXCEPT
                        !.snap = canvasData.nodes, !.nodes = grown,
                        !.edges0 = canvasData.edges]
  /\ calm' = NoCalm
  /\ UNCHANGED <<activeFile, file, dom, intervalId, timers, nextTimer,
                 hasInitialized, injects, opsLeft, envLeft, pushes>>
  /\ UNCHANGED <<keyVars, probe>>

\* a write that calls the dispatcher through a timer of no delay
AddWriteNoDelay(s, io) ==
  /\ s \in InFlight("add") /\ tasks[s].pc = "writing"
  /\ file' = IF io THEN Stringify(tasks[s]) ELSE file
  /\ injects' = IF io
                THEN Append(injects, [idx |-> tasks[s].idx, set |-> now,
                                      due |-> now])
                ELSE injects
  /\ tasks' = Remove(tasks, s)
  /\ last' = [Step("write", "add", IF io THEN "saved" ELSE "writefail",
                   IF io THEN "Created ChatGPT node. Now injecting model selection..."
                   ELSE "Error: Could not update the canvas.") EXCEPT
                !.snap = tasks[s].snap, !.nodes = tasks[s].nodes,
                !.edges0 = tasks[s].edges]
  /\ calm' = NoCalm
  /\ UNCHANGED <<activeFile, dom, intervalId, timers, nextTimer, hasInitialized,
                 now, opsLeft, envLeft, pushes>>
  /\ UNCHANGED <<keyVars, probe>>

\* the write settles: notice and the 2000 ms timer, or the catch block
AddWrite(s, io) ==
  /\ s \in InFlight("add") /\ tasks[s].pc = "writing"
  /\ file' = IF io THEN Stringify(tasks[s]) ELSE file
  /\ injects' = IF io
                THEN Append(injects, [idx |-> tasks[s].idx, set |-> now,
                                      due |-> now + InjectDelay])
                ELSE injects
  /\ tasks' = Remove(tasks, s)
  /\ last' = [Step("write", "add", IF io THEN "saved" ELSE "writefail",
                   IF io THEN "Created ChatGPT node. Now injecting model selection..."
                   ELSE "Error: Could not update the canvas.") EXCEPT
                !.snap = tasks[s].snap, !.nodes = tasks[s].nodes,
                !.edges0 = tasks[s].edges]
  /\ calm' = NoCalm
  /\ UNCHANGED <<activeFile, dom, intervalId, timers, nextTimer, hasInitialized,
                 now, opsLeft, envLeft, pushes>>
  /\ UNCHANGED <<keyVars, probe>>

\* last element whose geometry matches, 0 when there is none
RECURSIVE LastMatch(_, _, _)
LastMatch(g, d, e) ==
  IF e > Len(d) THEN 0
  ELSE LET later == LastMatch(g, d, e + 1) IN
       IF later # 0 THEN later
       ELSE IF Matches(g, d[e]) THEN e ELSE 0

\* first element whose geometry matches, 0 when there is none
RECURSIVE FirstMatch(_, _, _)
FirstMatch(g, d, e) ==
  IF e > Len(d) THEN 0
  ELSE IF Matches(g, d[e]) THEN e
  ELSE FirstMatch(g, d, e + 1)

\* the lookup with the guard on the view left out
InjectOutcomeAnyElement(g, d) ==
  IF FirstMatch(g, d, 1) = 0 THEN "notfound" ELSE "execute"

\* the lookup and the two guards of injectJSForModelClick
InjectOutcome(g, d) ==
  LET e == FirstMatch(g, d, 1) IN
  IF e = 0 THEN "notfound"
  ELSE IF ~d[e].webview \/ ~d[e].exec THEN "noexec"
  ELSE "execute"

\* the 2000 ms timer fires: injectJSForModelClick, executeJavaScript settling
\* either way
InjectFire(io) ==
  /\ injects # <<>>
  /\ injects[1].due <= now
  /\ LET out == InjectOutcome(NewGeom, dom) IN
     /\ out # "execute" => io
     /\ last' = [Step("inject", "add",
                      IF out = "execute" /\ ~io THEN "rejected" ELSE out,
                      IF out = "execute" /\ io
                      THEN "Injected model-switch JS" ELSE "") EXCEPT
                   !.dom0 = dom]
  /\ injects' = Tail(injects)
  /\ calm' = NoCalm
  /\ UNCHANGED <<activeFile, file, dom, intervalId, timers, nextTimer,
                 hasInitialized, tasks, now, opsLeft, envLeft, pushes>>
  /\ UNCHANGED <<keyVars, probe>>

\* time passes until the timer set first is due
TimerWait ==
  /\ injects # <<>>
  /\ now < injects[1].due
  /\ now' = injects[1].due
  /\ UNCHANGED <<activeFile, file, dom, intervalId, timers, nextTimer,
                 hasInitialized, tasks, injects, opsLeft, envLeft, pushes,
                 calm, last>>
  /\ UNCHANGED <<keyVars, probe>>

\* ------------------------------------------------------------- environment
NavUrls == {UrlAbc, UrlOther}
Files == {"none", "md", "canvas"}

EnvStep ==
  /\ envLeft > 0
  /\ envLeft' = envLeft - 1
  /\ calm' = NoCalm
  /\ last' = NoStep
  /\ UNCHANGED <<keyVars, probe>>

\* the user (or the page) navigates an embedded view
Navigate(e, u) ==
  /\ e \in 1..Len(dom)
  /\ dom[e].webview /\ dom[e].src # u
  /\ dom' = [dom EXCEPT ![e].src = u]
  /\ EnvStep
  /\ UNCHANGED <<activeFile, file, intervalId, timers, nextTimer, hasInitialized,
                 tasks, injects, now, opsLeft, pushes>>

\* the user opens another file, or closes the last one
SwitchFile(f) ==
  /\ f # activeFile
  /\ activeFile' = f
  /\ EnvStep
  /\ UNCHANGED <<file, dom, intervalId, timers, nextTimer, hasInitialized, tasks,
                 injects, now, opsLeft, pushes>>

\* another writer leaves text in the file that is not JSON
ExternalCorrupt ==
  /\ file.ok
  /\ file' = [ok |-> FALSE, nodes |-> <<>>, edges |-> <<>>]
  /\ EnvStep
  /\ UNCHANGED <<activeFile, dom, intervalId, timers, nextTimer, hasInitialized,
                 tasks, injects, now, opsLeft, pushes>>

\* another writer (the host's canvas editor) sets an extension field of a record
ExternalEdit(i) ==
  /\ file.ok
  /\ i \in 1..Len(file.nodes)
  /\ file.nodes[i].color = Undef
  /\ file' = [file EXCEPT !.nodes[i].color = "1"]
  /\ EnvStep
  /\ UNCHANGED <<activeFile, dom, intervalId, timers, nextTimer, hasInitialized,
                 tasks, injects, now, opsLeft, pushes>>

Env ==
  \/ \E e \in 1..Len(dom), u \in NavUrls : Navigate(e, u)
  \/ \E f \in Files : SwitchFile(f)
  \/ ExternalCorrupt
  \/ \E i \in 1..Len(file.nodes) : ExternalEdit(i)

\* ------------------------------------ AddCanvasLinkNodePlugin.handleBackspace
\* a node of the canvas as the handler sees it: url, unknownData.url, geometry
CanvasNodeOf(url, unknownDataUrl, g) ==
  [url |-> url, unknownDataUrl |-> unknownDataUrl,
   x |-> g.x, y |-> g.y, width |-> g.width, height |-> g.height]

FarGeom == Shift(OldGeom, Px(1000))

\* a chat with a view, a web page with no element, a chat known only by
\* unknownData.url whose first element has no view, a chat with no element,
\* a second chat with a view
KeyNodes ==
  <<CanvasNodeOf(UrlAbc, UrlAbc, OldGeom),
    CanvasNodeOf(UrlOther, UrlOther, FarGeom),
    CanvasNodeOf(Undef, linkUrl, NewGeom),
    CanvasNodeOf(linkUrl, Undef, Shift(FarGeom, Px(1000))),
    CanvasNodeOf(linkUrl, Undef, Shift(FarGeom, Px(2000)))>>

\* node?.unknownData?.url || node?.url
UrlOf(node) ==
  IF Truthy(node.unknownDataUrl) THEN node.unknownDataUrl ELSE node.url

\* a predicate that takes any address for a chat's
HasUrl(node) == Truthy(UrlOf(node))

\* url && url.includes('chatgpt.com')
IsChatGpt(node) == Truthy(UrlOf(node)) /\ Includes(UrlOf(node), "chatgpt.com")

\* a handler that takes any selected node for a chat
foundAnyNode(sel) == sel # <<>>

\* the first loop over the selection
foundChatGpt(sel) == \E k \in 1..Len(sel) : IsChatGpt(KeyNodes[sel[k]])

\* injectJSLikeModelSwitcher up to its await: the first element within
\* tolerance, the two guards, the call of executeJavaScript
injectJSLikeModelSwitcher(fx, i) ==
  LET e == FirstMatch(KeyNodes[i], dom, 1)
      out == IF e = 0 THEN "notfound"
             ELSE IF ~dom[e].webview \/ ~dom[e].exec THEN "noexec"
             ELSE "execute" IN
  [fx EXCEPT !.trace = Append(@, [t |-> "inject", node |-> i, out |-> out]),
             !.calls = IF out = "execute"
                       THEN Append(@, [node |-> i, el |-> e, state |-> "pending"])
                       ELSE @]

\* a second loop that dispatches for every selected node
RECURSIVE InjectEachSelected(_, _, _)
InjectEachSelected(fx, sel, k) ==
  IF k > Len(sel) THEN fx
  ELSE InjectEachSelected(injectJSLikeModelSwitcher(fx, sel[k]), sel, k + 1)

\* a second loop that a dispatch which finds no view brings to an end
RECURSIVE InjectUntilFailure(_, _, _)
InjectUntilFailure(fx, sel, k) ==
  IF k > Len(sel) THEN fx
  ELSE IF ~IsChatGpt(KeyNodes[sel[k]]) THEN InjectUntilFailure(fx, sel, k + 1)
  ELSE LET fx1 == injectJSLikeModelSwitcher(fx, sel[k]) IN
       IF fx1.trace[Len(fx1.trace)].out # "execute" THEN fx1
       ELSE InjectUntilFailure(fx1, sel, k + 1)

\* the second loop over the selection
RECURSIVE InjectEach(_, _, _)
InjectEach(fx, sel, k) ==
  IF k > Len(sel) THEN fx
  ELSE InjectEach(IF IsChatGpt(KeyNodes[sel[k]])
                  THEN injectJSLikeModelSwitcher(fx, sel[k]) ELSE fx,
                  sel, k + 1)

Mark(fx, t) == [fx EXCEPT !.trace = Append(@, [t |-> t, node |-> 0, out |-> ""])]

SetTimeout(fx, kind, delay) ==
  [Mark(fx, kind) EXCEPT !.timers = Append(@, [kind |-> kind, due |-> now + delay])]

RECURSIVE RunListeners(_, _, _)

\* document.dispatchEvent: every capture listener in the order it was added,
\* until one stops immediate propagation
dispatchEvent(fx, evt) ==
  IF fx.depth >= MaxDepth
  THEN [fx |-> [fx EXCEPT !.overflow = TRUE], evt |-> evt]
  ELSE LET r == RunListeners([fx |-> [fx EXCEPT !.depth = @ + 1], evt |-> evt],
                             1, listeners) IN
       [r EXCEPT !.fx.depth = fx.depth]

\* a handler that takes the events scripts dispatch as it takes the user's
handleBackspaceUntrusted(fx0, evt) ==
  LET fx == [fx0 EXCEPT !.handled = @ + 1] IN
  IF evt.key # "Backspace" THEN [fx |-> fx, evt |-> evt]
  ELSE IF ~hasCanvas THEN [fx |-> fx, evt |-> evt]
  ELSE IF selection = <<>> THEN [fx |-> fx, evt |-> evt]
  ELSE IF ~foundChatGpt(selection) THEN [fx |-> fx, evt |-> evt]
  ELSE LET blocked == [evt EXCEPT !.defaultPrevented = TRUE,
                                  !.propagationStopped = TRUE,
                                  !.immediateStopped = TRUE]
           fx1 == Mark(Mark(Mark(fx, "preventDefault"), "stopPropagation"),
                       "stopImmediatePropagation")
           ctrlShiftBackspaceEvent == KeyEvent(FALSE, "Backspace", TRUE, TRUE)
           fx2 == dispatchEvent([Mark(fx1, "dispatchEvent") EXCEPT !.synth = @ + 1],
                                ctrlShiftBackspaceEvent).fx
           fx3 == SetTimeout(fx2, "click", ClickDelay)
           fx4 == InjectEach(fx3, selection, 1)
           fx5 == IF redelete THEN SetTimeout(fx4, "deleteSelection", DeleteDelay)
                  ELSE fx4 IN
       [fx |-> fx5, evt |-> blocked]

\* the capture listener of keydown
handleBackspace(fx0, evt) ==
  LET fx == [fx0 EXCEPT !.handled = @ + 1] IN
  IF ~evt.isTrusted THEN [fx |-> fx, evt |-> evt]
  ELSE IF evt.key # "Backspace" THEN [fx |-> fx, evt |-> evt]
  ELSE IF ~hasCanvas THEN [fx |-> fx, evt |-> evt]
  ELSE IF selection = <<>> THEN [fx |-> fx, evt |-> evt]
  ELSE IF ~foundChatGpt(selection) THEN [fx |-> fx, evt |-> evt]
  ELSE LET blocked == [evt EXCEPT !.defaultPrevented = TRUE,
                                  !.propagationStopped = TRUE,
                                  !.immediateStopped = TRUE]
           fx1 == Mark(Mark(Mark(fx, "preventDefault"), "stopPropagation"),
                       "stopImmediatePropagation")
           ctrlShiftBackspaceEvent == KeyEvent(FALSE, "Backspace", TRUE, TRUE)
           fx2 == dispatchEvent([Mark(fx1, "dispatchEvent") EXCEPT !.synth = @ + 1],
                                ctrlShiftBackspaceEvent).fx
           fx3 == SetTimeout(fx2, "click", ClickDelay)
           fx4 == InjectEach(fx3, selection, 1)
           fx5 == IF redelete THEN SetTimeout(fx4, "deleteSelection", DeleteDelay)
                  ELSE fx4 IN
       [fx |-> fx5, evt |-> blocked]

RunListeners(r, k, n) ==
  IF k > n \/ r.evt.immediateStopped THEN r
  ELSE RunListeners(handleBackspace(r.fx, r.evt), k + 1, n)

Range(q) == {q[k] : k \in 1..Len(q)}

\* onload: the listener is added to the document
onload ==
  /\ ~loaded
  /\ listeners < MaxLoads
  /\ loaded' = TRUE
  /\ listeners' = listeners + 1
  /\ UNCHANGED <<redelete, hasCanvas, canvasNodes, selection, timeouts, execs,
                 fired, kev, keysLeft, dom, now, envLeft, pollVars>>

\* onunload: a log line
onunload ==
  /\ loaded
  /\ loaded' = FALSE
  /\ UNCHANGED <<listeners, redelete, hasCanvas, canvasNodes, selection,
                 timeouts, execs, fired, kev, keysLeft, dom, now, envLeft,
                 pollVars>>

Keys == {"Backspace", "Delete"}

\* a keydown reaches the document: the listeners run, and the host deletes
\* the selection on a Backspace of the user that no listener suppressed
KeyDown(isTrusted, key) ==
  /\ keysLeft > 0
  /\ keysLeft' = keysLeft - 1
  /\ LET r == dispatchEvent(NoFx, KeyEvent(isTrusted, key, FALSE, FALSE))
         default == /\ isTrusted /\ key = "Backspace"
                    /\ hasCanvas /\ selection # <<>>
                    /\ ~r.evt.defaultPrevented /\ ~r.evt.propagationStopped IN
     /\ kev' = [evt |-> r.evt, fx |-> r.fx, sel0 |-> selection, at |-> now,
                listeners |-> listeners, canvas |-> hasCanvas,
                default |-> default, loaded |-> loaded]
     /\ timeouts' = timeouts \o r.fx.timers
     /\ execs' = execs \o r.fx.calls
     /\ canvasNodes' = IF default THEN canvasNodes \ Range(selection)
                       ELSE canvasNodes
     /\ selection' = IF default THEN <<>> ELSE selection
  /\ UNCHANGED <<loaded, listeners, redelete, hasCanvas, fired, dom, now,
                 envLeft, pollVars>>

\* the pending timer that is due first, the earlier set first among equals
NextDue ==
  CHOOSE k \in 1..Len(timeouts) :
    \A j \in 1..Len(timeouts) :
      timeouts[k].due < timeouts[j].due \/ (timeouts[k].due = timeouts[j].due /\ k <= j)

\* a deleteSelection that removes what was selected when the key was pressed
TimeoutFireOnSnapshot(btn) ==
  /\ timeouts # <<>>
  /\ timeouts[NextDue].due <= now
  /\ LET t == timeouts[NextDue] IN
     IF t.kind = "click"
     THEN /\ fired' = Append(fired, [kind |-> "click", at |-> now,
                                     clicked |-> btn, removed |-> {}])
          /\ UNCHANGED <<canvasNodes, selection>>
     ELSE /\ btn
          /\ fired' = Append(fired, [kind |-> "deleteSelection", at |-> now,
                                     clicked |-> FALSE,
                                     removed |-> Range(kev.sel0)])
          /\ canvasNodes' = canvasNodes \ Range(kev.sel0)
          /\ selection' = SelectSeq(selection, LAMBDA j : j \notin Range(kev.sel0))
  /\ timeouts' = Remove(timeouts, NextDue)
  /\ UNCHANGED <<loaded, listeners, redelete, hasCanvas, execs, kev, keysLeft,
                 dom, now, envLeft, pollVars>>

\* a timer of handleBackspace fires: the click on the confirmation button if
\* the page has one, or canvas.deleteSelection()
TimeoutFire(btn) ==
  /\ timeouts # <<>>
  /\ timeouts[NextDue].due <= now
  /\ LET t == timeouts[NextDue] IN
     IF t.kind = "click"
     THEN /\ fired' = Append(fired, [kind |-> "click", at |-> now,
                                     clicked |-> btn, removed |-> {}])
          /\ UNCHANGED <<canvasNodes, selection>>
     ELSE /\ btn
          /\ fired' = Append(fired, [kind |-> "deleteSelection", at |-> now,
                                     clicked |-> FALSE,
                                     removed |-> Range(selection)])
          /\ canvasNodes' = canvasNodes \ Range(selection)
          /\ selection' = <<>>
  /\ timeouts' = Remove(timeouts, NextDue)
  /\ UNCHANGED <<loaded, listeners, redelete, hasCanvas, execs, kev, keysLeft,
                 dom, now, envLeft, pollVars>>

\* executeJavaScript settles: the notice, or the logged error
ExecSettle(k, io) ==
  /\ k \in 1..Len(execs)
  /\ execs[k].state = "pending"
  /\ execs' = [execs EXCEPT ![k].state = IF io THEN "noticed" ELSE "rejected"]
  /\ UNCHANGED <<loaded, listeners, redelete, hasCanvas, canvasNodes, selection,
                 timeouts, fired, kev, keysLeft, dom, now, envLeft, pollVars>>

\* a second of the time a timer waits passes, once the timers that are due
\* have fired
AdvanceClock ==
  /\ timeouts # <<>>
  /\ \A k \in 1..Len(timeouts) : timeouts[k].due > now
  /\ now' = now + 1000
  /\ UNCHANGED <<keyVars, dom, envLeft, pollVars>>

\* what is selected to begin with: nothing, the page, the page and then a
\* chat, the four chats (those without a view first), a chat and then the
\* page
KeySelections == {<<>>, <<2>>, <<2, 1>>, <<4, 3, 1, 5>>, <<3, 2>>}

\* the user adds a node to the selection, or takes one out of it
Select(i) ==
  /\ envLeft > 0
  /\ envLeft' = envLeft - 1
  /\ i \in canvasNodes
  /\ selection' = IF i \in Range(selection)
                  THEN SelectSeq(selection, LAMBDA j : j # i)
                  ELSE Append(selection, i)
  /\ UNCHANGED <<loaded, listeners, redelete, hasCanvas, canvasNodes, timeouts,
                 execs, fired, kev, keysLeft, dom, now, pollVars>>

\* the elements of the canvas: the chat's, and at one place an element
\* without a view ahead of one with a view
KeyDom ==
  <<Element(OldGeom, 0, TRUE, TRUE, UrlAbc),
    Element(NewGeom, 0, FALSE, FALSE, ""),
    Element(NewGeom, 1, TRUE, TRUE, linkUrl),
    Element(Shift(FarGeom, Px(2000)), 0, TRUE, TRUE, linkUrl)>>

InitKeys ==
  /\ activeFile = "canvas"
  /\ file = Stringify(Data(<<>>))
  /\ intervalId = 0
  /\ timers = {}
  /\ nextTimer = 1
  /\ hasInitialized = {}
  /\ tasks = <<>>
  /\ injects = <<>>
  /\ now = 0
  /\ opsLeft = 0
  /\ envLeft = MaxEnv
  /\ pushes = [id \in Ids |-> 0]
  /\ calm = NoCalm
  /\ last = NoStep
  /\ dom = KeyDom
  /\ loaded = FALSE
  /\ listeners = 0
  /\ redelete \in BOOLEAN
  /\ hasCanvas \in BOOLEAN
  /\ canvasNodes = 1..Len(KeyNodes)
  /\ selection \in KeySelections
  /\ timeouts = <<>>
  /\ execs = <<>>
  /\ fired = <<>>
  /\ kev = NoKey
  /\ keysLeft = MaxKeys
  /\ probe = NoProbe

\* ------------------------------------------------- geometry lookups alone
\* nothing is running: no file open, no timer, no call in flight
PollIdle ==
  /\ activeFile = "none"
  /\ file = Stringify(Data(<<>>))
  /\ dom = <<>>
  /\ intervalId = 0
  /\ timers = {}
  /\ nextTimer = 1
  /\ hasInitialized = {}
  /\ tasks = <<>>
  /\ injects = <<>>
  /\ now = 0
  /\ opsLeft = 0
  /\ envLeft = 0
  /\ pushes = [id \in Ids |-> 0]
  /\ calm = NoCalm
  /\ last = NoStep

\* a geometry off another by quarter pixels in each component
Nudge(g, dx, dy, dw, dh) ==
  [x |-> g.x + dx, y |-> g.y + dy, width |-> g.width + dw,
   height |-> g.height + dh]

Offsets == (0 - MaxOff)..MaxOff

\* the comparison of findCanvasNodeByCoords: equality in every component
MatchesExactly(node, el) ==
  /\ el.x = node.x
  /\ el.y = node.y
  /\ el.width = node.width
  /\ el.height = node.height

\* a record's geometry, and two elements: one nudged in every component,
\* one nudged along x
InitMatch ==
  /\ PollIdle
  /\ loaded = FALSE /\ listeners = 0 /\ redelete = FALSE /\ hasCanvas = TRUE
  /\ canvasNodes = {} /\ selection = <<>> /\ timeouts = <<>> /\ execs = <<>>
  /\ fired = <<>> /\ kev = NoKey /\ keysLeft = 0
  /\ \E dx, dy, dw, dh, dx2 \in Offsets :
       probe = [kind |-> "match",
                node |-> NewGeom,
                els |-> <<Element(Nudge(NewGeom, dx, dy, dw, dh), 0, TRUE, TRUE,
                                  UrlAbc),
                          Element(NewGeom, dx2, TRUE, TRUE, UrlOther)>>,
                done |-> {},
                matches |-> <<>>, reverse |-> <<>>, exact |-> <<>>,
                first |-> 0, all |-> <<>>]

\* the comparison is made of the record with each element, and of each
\* element with the record
Compare ==
  /\ probe.kind = "match" /\ "compare" \notin probe.done
  /\ probe' = [probe EXCEPT
       !.done = @ \cup {"compare"},
       !.matches = [e \in 1..Len(probe.els) |-> Matches(probe.node, probe.els[e])],
       !.reverse = [e \in 1..Len(probe.els) |-> Matches(probe.els[e], probe.node)]]
  /\ UNCHANGED <<keyVars, dom, now, envLeft, activeFile, file, intervalId,
                 timers, nextTimer, hasInitialized, tasks, injects, opsLeft,
                 pushes, calm, last>>

\* findCanvasNodeByCoords compares the record with each element
CompareExactly ==
  /\ probe.kind = "match" /\ "exact" \notin probe.done
  /\ probe' = [probe EXCEPT
       !.done = @ \cup {"exact"},
       !.exact = [e \in 1..Len(probe.els) |->
                    MatchesExactly(probe.node, probe.els[e])]]
  /\ UNCHANGED <<keyVars, dom, now, envLeft, activeFile, file, intervalId,
                 timers, nextTimer, hasInitialized, tasks, injects, opsLeft,
                 pushes, calm, last>>

\* the dispatcher's lookup
LookupFirst ==
  /\ probe.kind = "match" /\ "first" \notin probe.done
  /\ probe' = [probe EXCEPT !.done = @ \cup {"first"},
                            !.first = FirstMatch(probe.node, probe.els, 1)]
  /\ UNCHANGED <<keyVars, dom, now, envLeft, activeFile, file, intervalId,
                 timers, nextTimer, hasInitialized, tasks, injects, opsLeft,
                 pushes, calm, last>>

\* the polling engine's lookup
LookupAll ==
  /\ probe.kind = "match" /\ "all" \notin probe.done
  /\ probe' = [probe EXCEPT !.done = @ \cup {"all"},
                            !.all = findAllCanvasNodesInDom(probe.node, probe.els)]
  /\ UNCHANGED <<keyVars, dom, now, envLeft, activeFile, file, intervalId,
                 timers, nextTimer, hasInitialized, tasks, injects, opsLeft,
                 pushes, calm, last>>

\* ------------------------------------------------------- transform parsing
\* the character at a position of a string, "" outside it
Ch(s, i) == IF i >= 1 /\ i <= Len(s) THEN SubSeq(s, i, i) ELSE ""

\* the text of a string from one position to another, "" when there is none
Slice(s, i, j) == IF i > j THEN "" ELSE SubSeq(s, i, j)

\* a literal stands in a string at a position
StartsAt(s, i, lit) ==
  /\ i >= 1
  /\ i + Len(lit) - 1 <= Len(s)
  /\ SubSeq(s, i, i + Len(lit) - 1) = lit

\* the class \d
IsDigit(c) == c \in {"0", "1", "2", "3", "4", "5", "6", "7", "8", "9"}

\* the class [\-\d.]
IsNumCh(c) == IsDigit(c) \/ c = "-" \/ c = "."

\* the class [\d.]
IsPlainCh(c) == IsDigit(c) \/ c = "."

\* the class \w
IsWordCh(c) ==
  \/ IsDigit(c)
  \/ c = "_"
  \/ c \in {"a", "b", "c", "d", "e", "f", "g", "h", "i", "j", "k", "l", "m",
            "n", "o", "p", "q", "r", "s", "t", "u", "v", "w", "x", "y", "z"}
  \/ c \in {"A", "B", "C", "D", "E", "F", "G", "H", "I", "J", "K", "L", "M",
            "N", "O", "P", "Q", "R", "S", "T", "U", "V", "W", "X", "Y", "Z"}

\* the class [^)]
IsNotClose(c) == c # ")"

\* membership of a character in a class of the regular expressions
InClass(cls, c) ==
  CASE cls = "space" -> IsSpace(c)
    [] cls = "digit" -> IsDigit(c)
    [] cls = "num" -> IsNumCh(c)
    [] cls = "plain" -> IsPlainCh(c)
    [] cls = "word" -> IsWordCh(c)
    [] cls = "notclose" -> IsNotClose(c)
    [] cls = "notcomma" -> c # ","

\* where a greedy run of a class, begun at a position, ends (one past it)
RunEnd(s, i, cls) ==
  IF i > Len(s) THEN i
  ELSE CHOOSE j \in i..(Len(s) + 1) :
         /\ \A q \in i..(j - 1) : InClass(cls, Ch(s, q))
         /\ (j = Len(s) + 1 \/ ~InClass(cls, Ch(s, j)))

\* where the run of a class that ends at a position begins
RunStart(s, j, cls) ==
  IF j < 1 THEN j + 1
  ELSE CHOOSE k \in 1..(j + 1) :
         /\ \A q \in k..j : InClass(cls, Ch(s, q))
         /\ (k = 1 \/ ~InClass(cls, Ch(s, k - 1)))

\* a number of JavaScript: not-a-number, an infinity, or a decimal m * 10^e
\* with m free of trailing zeros
Num(m, e) == [kind |-> "num", m |-> m, e |-> e]
NaN == [kind |-> "nan", m |-> 0, e |-> 0]
Infinity(sign) == [kind |-> "inf", m |-> sign, e |-> 0]

\* coordinates that start out as one
One == Num(1, 0)

\* the value x and y start out with
Zero == Num(0, 0)

RECURSIVE Normalise(_, _)
Normalise(m, e) ==
  IF m = 0 THEN Zero
  ELSE IF m % 10 = 0 THEN Normalise(m \div 10, e + 1)
  ELSE Num(m, e)

DigitVal(c) == CHOOSE d \in 0..9 : SubSeq("0123456789", d + 1, d + 1) = c

RECURSIVE DigitsVal(_)
DigitsVal(s) ==
  IF Len(s) = 0 THEN 0
  ELSE DigitsVal(Slice(s, 1, Len(s) - 1)) * 10 + DigitVal(Ch(s, Len(s)))

\* parseFloat: the longest decimal literal that begins the trimmed string
parseFloat(s) ==
  LET t == TrimLeft(s)
      neg == Ch(t, 1) = "-"
      a == IF Ch(t, 1) \in {"+", "-"} THEN 2 ELSE 1
      b == RunEnd(t, a, "digit")
      hasDot == Ch(t, b) = "."
      c == IF hasDot THEN RunEnd(t, b + 1, "digit") ELSE b
      intDigits == Slice(t, a, b - 1)
      fracDigits == IF hasDot THEN Slice(t, b + 1, c - 1) ELSE ""
      expNeg == Ch(t, c + 1) = "-"
      d == IF Ch(t, c + 1) \in {"+", "-"} THEN c + 2 ELSE c + 1
      f == RunEnd(t, d, "digit")
      hasExp == Ch(t, c) \in {"e", "E"} /\ f > d
      exp == IF ~hasExp THEN 0
             ELSE IF expNeg THEN 0 - DigitsVal(Slice(t, d, f - 1))
             ELSE DigitsVal(Slice(t, d, f - 1))
      mant == DigitsVal(intDigits \o fracDigits)
  IN IF StartsAt(t, a, "Infinity") THEN Infinity(IF neg THEN 0 - 1 ELSE 1)
     ELSE IF intDigits = "" /\ fracDigits = "" THEN NaN
     ELSE Normalise(IF neg THEN 0 - mant ELSE mant, exp - Len(fracDigits))

\* String.prototype.split(',')
RECURSIVE Split(_)
Split(s) ==
  LET c == RunEnd(s, 1, "notcomma") IN
  IF c > Len(s) THEN <<s>>
  ELSE <<Slice(s, 1, c - 1)>> \o Split(Slice(s, c + 1, Len(s)))

NoNumbers == [ok |-> FALSE, m |-> <<>>, from |-> 0, next |-> 0]

\* \s*([\-\d.]+) followed by n - 1 times ,\s*([\-\d.]+), at a position
RECURSIVE NumberList(_, _, _)
NumberList(s, i, n) ==
  LET a == RunEnd(s, i, "space")
      b == RunEnd(s, a, "num")
  IN IF b = a THEN NoNumbers
     ELSE IF n = 1
       THEN [ok |-> TRUE, m |-> <<Slice(s, a, b - 1)>>, from |-> a, next |-> b]
     ELSE IF Ch(s, b) # "," THEN NoNumbers
     ELSE LET r == NumberList(s, b + 1, n - 1) IN
          IF ~r.ok THEN NoNumbers
          ELSE [ok |-> TRUE, m |-> <<Slice(s, a, b - 1)>> \o r.m,
                from |-> a, next |-> r.next]

\* matrixRegex.exec: the six groups of a match at the head of the string
matrixRegex(s) ==
  IF ~StartsAt(s, 1, "matrix(") THEN NoNumbers
  ELSE LET r == NumberList(s, 8, 6) IN
       IF r.ok /\ Ch(s, r.next) = ")" THEN r ELSE NoNumbers

\* matrix3dRegex.exec: the one group, a number and fourteen more
matrix3dRegex(s) ==
  IF ~StartsAt(s, 1, "matrix3d(") THEN [ok |-> FALSE, m |-> ""]
  ELSE LET r == NumberList(s, 10, 15) IN
       IF r.ok /\ Ch(s, r.next) = ")"
       THEN [ok |-> TRUE, m |-> Slice(s, r.from, r.next - 1)]
       ELSE [ok |-> FALSE, m |-> ""]

NoFunction == [ok |-> FALSE, fn |-> "", rawArgs |-> "", lastIndex |-> 0]

\* allFunctionsRegex.exec from lastIndex: the next word that an open
\* parenthesis, one character or more and a close parenthesis follow
RECURSIVE allFunctionsRegex(_, _)
allFunctionsRegex(s, i) ==
  IF i > Len(s) THEN NoFunction
  ELSE IF ~IsWordCh(Ch(s, i)) THEN allFunctionsRegex(s, i + 1)
  ELSE LET k == RunEnd(s, i, "word")
           c == RunEnd(s, k + 1, "notclose")
       IN IF Ch(s, k) = "(" /\ c > k + 1 /\ c <= Len(s)
          THEN [ok |-> TRUE, fn |-> Slice(s, i, k - 1),
                rawArgs |-> Slice(s, k + 1, c - 1), lastIndex |-> c + 1]
          ELSE allFunctionsRegex(s, IF Ch(s, k) = "(" THEN k + 1 ELSE k)

\* the test fn === 'translate', loosened to every name that begins so
BeginsWithTranslate(fn) == StartsAt(fn, 1, "translate")

\* the test fn === 'translate'
IsTranslate(fn) == fn = "translate"

\* the translate branch of the loop: the coordinates after it
TranslateXY(rawArgs, xy) ==
  LET raw == Split(rawArgs)
      parts == [k \in 1..Len(raw) |-> Trim(raw[k])]
  IN IF Len(parts) >= 2
       THEN [x |-> parseFloat(parts[1]), y |-> parseFloat(parts[2])]
     ELSE IF Len(parts) = 1 THEN [x |-> parseFloat(parts[1]), y |-> Zero]
     ELSE xy

\* the loop, left at the first translate call
RECURSIVE LoopToFirstTranslate(_, _, _)
LoopToFirstTranslate(s, i, xy) ==
  LET funcMatch == allFunctionsRegex(s, i) IN
  IF ~funcMatch.ok THEN xy
  ELSE IF IsTranslate(funcMatch.fn) THEN TranslateXY(funcMatch.rawArgs, xy)
  ELSE LoopToFirstTranslate(s, funcMatch.lastIndex, xy)

\* the loop over the functions of a chained transform
RECURSIVE FunctionsLoop(_, _, _)
FunctionsLoop(s, i, xy) ==
  LET funcMatch == allFunctionsRegex(s, i) IN
  IF ~funcMatch.ok THEN xy
  ELSE FunctionsLoop(s, funcMatch.lastIndex,
                     IF IsTranslate(funcMatch.fn)
                     THEN TranslateXY(funcMatch.rawArgs, xy) ELSE xy)

parseTransformToXY(transformString) ==
  IF ~Truthy(transformString) \/ transformString = "none"
  THEN [x |-> Zero, y |-> Zero]
  ELSE LET m == matrixRegex(transformString) IN
       IF m.ok THEN [x |-> parseFloat(m.m[5]), y |-> parseFloat(m.m[6])]
       ELSE LET m3 == matrix3dRegex(transformString) IN
            IF m3.ok
            THEN LET raw == Split(m3.m)
                     parts == [k \in 1..Len(raw) |-> parseFloat(Trim(raw[k]))]
                 IN [x |-> parts[13], y |-> parts[14]]
            ELSE FunctionsLoop(transformString, 1, [x |-> Zero, y |-> Zero])

NoGroups == [ok |-> FALSE, m |-> <<>>]

\* /translate\(([\d.]+)px,\s*([\d.]+)px\)/ at a position
translateMatchAt(s, i) ==
  LET a == i + 10
      b == RunEnd(s, a, "plain")
      c == RunEnd(s, b + 3, "space")
      d == RunEnd(s, c, "plain")
  IN IF /\ StartsAt(s, i, "translate(") /\ b > a /\ StartsAt(s, b, "px,")
        /\ d > c /\ StartsAt(s, d, "px)")
     THEN [ok |-> TRUE, m |-> <<Slice(s, a, b - 1), Slice(s, c, d - 1)>>]
     ELSE NoGroups

\* the leftmost match of that expression
translateMatch(s) ==
  LET at == {i \in 1..Len(s) : translateMatchAt(s, i).ok} IN
  IF at = {} THEN NoGroups
  ELSE translateMatchAt(s, CHOOSE i \in at : \A o \in at : i <= o)

\* /matrix\(.*,\s*([\d.]+),\s*([\d.]+)\)$/: the last two numbers of the
\* string, each after a comma, the first comma after some "matrix("
matrixMatch(s) ==
  LET n == Len(s)
      b6 == RunStart(s, n - 1, "plain")
      s6 == RunStart(s, b6 - 1, "space")
      b5 == RunStart(s, s6 - 2, "plain")
      s5 == RunStart(s, b5 - 1, "space")
  IN IF /\ Ch(s, n) = ")" /\ b6 <= n - 1 /\ Ch(s, s6 - 1) = ","
        /\ b5 <= s6 - 2 /\ Ch(s, s5 - 1) = ","
        /\ \E i \in 1..n : StartsAt(s, i, "matrix(") /\ i + 7 <= s5 - 1
     THEN [ok |-> TRUE, m |-> <<Slice(s, b5, s6 - 2), Slice(s, b6, n - 1)>>]
     ELSE NoGroups

\* domX and domY as updateNodeUrlFromDom and findCanvasNodeByCoords compute
\* them from the transform
domXY(transform) ==
  LET t == translateMatch(transform) IN
  IF t.ok THEN [x |-> parseFloat(t.m[1]), y |-> parseFloat(t.m[2])]
  ELSE LET m == matrixMatch(transform) IN
       IF m.ok THEN [x |-> parseFloat(m.m[1]), y |-> parseFloat(m.m[2])]
       ELSE [x |-> Zero, y |-> Zero]

\* the text of a list of arguments
RECURSIVE Join(_, _)
Join(q, sep) ==
  IF Len(q) = 0 THEN ""
  ELSE IF Len(q) = 1 THEN q[1]
  ELSE q[1] \o sep \o Join(Tail(q), sep)

\* a transform function and its text
Fn(fn, args) == [fn |-> fn, args |-> args]
Render(f) == f.fn \o "(" \o Join(f.args, ", ") \o ")"

\* the arguments a style gives a translation in a matrix, and the lengths
\* it gives a translate
TransTokens == {"0", "17", "-42.5", "0.25", "-7", "1e2"}
Lengths == {"10px", "-5px", "7px", "0.5px"}

\* the number each of these arguments denotes
ValueOf(t) ==
  CASE t = "0" -> Zero
    [] t = "17" -> Num(17, 0)
    [] t = "-42.5" -> Num(0 - 425, 0 - 1)
    [] t = "0.25" -> Num(25, 0 - 2)
    [] t = "-7" -> Num(0 - 7, 0)
    [] t = "1e2" -> Num(1, 2)
    [] t = "10px" -> Num(1, 1)
    [] t = "-5px" -> Num(0 - 5, 0)
    [] t = "7px" -> Num(7, 0)
    [] t = "0.5px" -> Num(5, 0 - 1)

\* the linear parts of a matrix: the identity, a scale by half, and a
\* quarter turn as a computed style writes it
LinearParts ==
  {<<"1", "0", "0", "1">>, <<"0.5", "0", "0", "0.5">>,
   <<"6.12323e-17", "1", "-1", "6.12323e-17">>}

\* the first twelve arguments of a matrix3d that only translates
Linear3d == <<"1", "0", "0", "0", "0", "1", "0", "0", "0", "0", "1", "0">>

\* the functions of a chained transform
Translates ==
  {Fn("translate", <<a, b>>) : a \in Lengths, b \in Lengths}
    \cup {Fn("translate", <<a>>) : a \in Lengths}

Functions ==
  Translates \cup {Fn("scale", <<"2">>), Fn("rotate", <<"45deg">>),
                   Fn("translateX", <<"5px">>),
                   Fn("matrix", <<"1", "0", "0", "1", "17", "0">>)}

\* the strings of an element that has no transform
Blanks == {"", "none"}

\* strings that are no transform: an argument that is no number, too few
\* arguments, a call that is not closed, no call at all
Malformed ==
  {"translate(abc)", "translate(10px, abc)", "translate(", "translate()",
   "translate(10px", "matrix(1, 0, 0, 1, -, 5)",
   "matrix(1, 0, 0, 1, 1.2.3, 5)", "matrix(1, 0, 0, 1)",
   "matrix(a, b, c, d, e, f)", "matrix3d(1, 0)", "garbage", "10px, 5px"}

NoXY == [x |-> Zero, y |-> Zero]

ParseProbe(shape, args, fns, text) ==
  [kind |-> "parse", shape |-> shape, args |-> args, fns |-> fns,
   text |-> text, done |-> {}, xy |-> NoXY, dom |-> NoXY]

\* a transform string: a matrix of six arguments, a matrix3d of fifteen or
\* sixteen, or a chain of functions
InitParse ==
  /\ PollIdle
  /\ loaded = FALSE /\ listeners = 0 /\ redelete = FALSE /\ hasCanvas = TRUE
  /\ canvasNodes = {} /\ selection = <<>> /\ timeouts = <<>> /\ execs = <<>>
  /\ fired = <<>> /\ kev = NoKey /\ keysLeft = 0
  /\ \/ \E lin \in LinearParts, e \in TransTokens, f \in TransTokens,
           sep \in {", ", ","}, open \in {"", " "}, close \in {"", " "} :
          LET args == lin \o <<e, f>> IN
          probe = ParseProbe("matrix", args, <<>>,
                    "matrix(" \o open \o Join(args, sep) \o close \o ")")
     \/ \E e \in TransTokens, f \in TransTokens, sep \in {", ", ","},
           last2 \in {<<"0">>, <<"0", "1">>} :
          LET args == Linear3d \o <<e, f>> \o last2 IN
          probe = ParseProbe("matrix3d", args, <<>>,
                    "matrix3d(" \o Join(args, sep) \o ")")
     \/ \E n \in 1..MaxFns : \E fns \in [1..n -> Functions] :
          probe = ParseProbe("chain", <<>>, fns,
                    Join([k \in 1..n |-> Render(fns[k])], " "))
     \/ \E t \in Blanks : probe = ParseProbe("blank", <<>>, <<>>, t)
     \/ \E t \in Malformed : probe = ParseProbe("malformed", <<>>, <<>>, t)

\* parseTransformToXY is applied to the string
ParseTransform ==
  /\ probe.kind = "parse" /\ "parse" \notin probe.done
  /\ probe' = [probe EXCEPT !.done = @ \cup {"parse"},
                            !.xy = parseTransformToXY(probe.text)]
  /\ UNCHANGED <<keyVars, dom, now, envLeft, activeFile, file, intervalId,
                 timers, nextTimer, hasInitialized, tasks, injects, opsLeft,
                 pushes, calm, last>>

\* updateNodeUrlFromDom and findCanvasNodeByCoords read the string their way
ParseInline ==
  /\ probe.kind = "parse" /\ "inline" \notin probe.done
  /\ probe' = [probe EXCEPT !.done = @ \cup {"inline"},
                            !.dom = domXY(probe.text)]
  /\ UNCHANGED <<keyVars, dom, now, envLeft, activeFile, file, intervalId,
                 timers, nextTimer, hasInitialized, tasks, injects, opsLeft,
                 pushes, calm, last>>

\* ---------------------------------------------------------- specifications
\* the polling engine and the save command, over a changing environment
Next ==
  \/ Start
  \/ Stop
  \/ \E t \in timers : PollTick(t)
  \/ \E s \in 1..Len(tasks), io \in BOOLEAN : PollRead(s, io)
  \/ \E s \in 1..Len(tasks), io \in BOOLEAN : PollWrite(s, io)
  \/ SaveBegin
  \/ \E s \in 1..Len(tasks), io \in BOOLEAN : SaveRead(s, io)
  \/ \E s \in 1..Len(tasks), io \in BOOLEAN : SaveWrite(s, io)
  \/ Env

Spec == Init /\ [][Next]_vars

\* node creation and the save command, over a changing environment
NextCreate ==
  \/ \E m \in Models : AddBegin(m)
  \/ \E s \in 1..Len(tasks), io \in BOOLEAN, dt \in {0, 1} : AddRead(s, io, dt)
  \/ \E s \in 1..Len(tasks), io \in BOOLEAN : AddWrite(s, io)
  \/ \E io \in BOOLEAN : InjectFire(io)
  \/ TimerWait
  \/ SaveBegin
  \/ \E s \in 1..Len(tasks), io \in BOOLEAN : SaveRead(s, io)
  \/ \E s \in 1..Len(tasks), io \in BOOLEAN : SaveWrite(s, io)
  \/ Env

SpecCreate == Init /\ [][NextCreate]_vars

\* the polling engine, the save command and node creation together, the
\* timers of node creation left pending
NextAll ==
  \/ Start
  \/ Stop
  \/ \E t \in timers : PollTick(t)
  \/ \E s \in 1..Len(tasks), io \in BOOLEAN : PollRead(s, io)
  \/ \E s \in 1..Len(tasks), io \in BOOLEAN : PollWrite(s, io)
  \/ SaveBegin
  \/ \E s \in 1..Len(tasks), io \in BOOLEAN : SaveRead(s, io)
  \/ \E s \in 1..Len(tasks), io \in BOOLEAN : SaveWrite(s, io)
  \/ \E m \in Models : AddBegin(m)
  \/ \E s \in 1..Len(tasks), io \in BOOLEAN, dt \in {0, 1} : AddRead(s, io, dt)
  \/ \E s \in 1..Len(tasks), io \in BOOLEAN : AddWrite(s, io)
  \/ Env

SpecAll == Init /\ [][NextAll]_vars

\* the polling engine left running: the timer fires for ever, reads and
\* writes succeed and settle, and the environment changes MaxEnv times
NextLive ==
  \/ Start
  \/ \E t \in timers : PollTickOn(t)
  \/ \E s \in 1..Len(tasks) : PollRead(s, TRUE)
  \/ \E s \in 1..Len(tasks) : PollWrite(s, TRUE)
  \/ Env

SpecLive ==
  /\ Init
  /\ [][NextLive]_vars
  /\ WF_vars(Start)
  /\ WF_vars(\E t \in timers : PollTickOn(t))
  /\ WF_vars(\E s \in 1..Len(tasks) : PollRead(s, TRUE))
  /\ WF_vars(\E s \in 1..Len(tasks) : PollWrite(s, TRUE))

\* the deletion interceptor, over the user's keys and selections
NextKeys ==
  \/ onload
  \/ onunload
  \/ \E isTrusted \in BOOLEAN, key \in Keys : KeyDown(isTrusted, key)
  \/ \E btn \in BOOLEAN : TimeoutFire(btn)
  \/ \E k \in 1..Len(execs), io \in BOOLEAN : ExecSettle(k, io)
  \/ AdvanceClock
  \/ \E i \in canvasNodes : Select(i)

SpecKeys == InitKeys /\ [][NextKeys]_vars

\* the geometry comparisons and lookups, on their own
NextMatch ==
  \/ Compare
  \/ CompareExactly
  \/ LookupFirst
  \/ LookupAll

SpecMatch == InitMatch /\ [][NextMatch]_vars

\* the readings of a transform string, on their own
NextParse ==
  \/ ParseTransform
  \/ ParseInline

SpecParse == InitParse /\ [][NextParse]_vars

\* ------------------------------------------- the loops of a pass alone
\* ids of the records of a document, by position
LoopIds == [k \in 1..(MaxRecs + 1) |-> IF k = 1 THEN "n1" ELSE IF k = 2 THEN "n2"
                                       ELSE ToString(k)]

\* a link record with no stored address, a blank one or an address, or a
\* text card, at one of two places
RecordShapes ==
  {[type |-> "link", lastUrl |-> u, g |-> g] :
     u \in {Undef, Blank, UrlAbc}, g \in {OldGeom, NewGeom}}
  \cup {[type |-> "text", lastUrl |-> UrlAbc, g |-> g] : g \in {OldGeom, NewGeom}}

\* an element at one of the two places: without a view, or with a view
\* showing one of two addresses
ElementShapes ==
  {[g |-> g, webview |-> w[1], src |-> w[2]] :
     g \in {OldGeom, NewGeom},
     w \in {<<FALSE, "">>, <<TRUE, UrlAbc>>, <<TRUE, UrlOther>>}}

LoopNodes ==
  UNION {{[k \in 1..n |-> Node(LoopIds[k], f[k].type, linkUrl, f[k].lastUrl, f[k].g)] :
            f \in [1..n -> RecordShapes]} : n \in 0..MaxRecs}

LoopDoms ==
  UNION {{[k \in 1..n |-> Element(f[k].g, 0, f[k].webview, f[k].webview, f[k].src)] :
            f \in [1..n -> ElementShapes]} : n \in 0..MaxEls}

\* a parsed document, a page and the set of records initialized so far
InitLoop ==
  /\ PollIdle
  /\ loaded = FALSE /\ listeners = 0 /\ redelete = FALSE /\ hasCanvas = TRUE
  /\ canvasNodes = {} /\ selection = <<>> /\ timeouts = <<>> /\ execs = <<>>
  /\ fired = <<>> /\ kev = NoKey /\ keysLeft = 0
  /\ \E nodes \in LoopNodes, d \in LoopDoms, init \in {{}, {"n1"}} :
       probe = [kind |-> "loop", done |-> FALSE,
                nodes |-> nodes, dom |-> d, init |-> init,
                res |-> PassState(nodes, d, init)]

\* the two loops of doPollingWork run over the document and the page
RunPollLoop ==
  /\ probe.kind = "loop" /\ ~probe.done
  /\ probe' = [probe EXCEPT !.done = TRUE,
                            !.res = PollLoop(probe.nodes, probe.dom, probe.init)]
  /\ UNCHANGED <<keyVars, dom, now, envLeft, activeFile, file, intervalId,
                 timers, nextTimer, hasInitialized, tasks, injects, opsLeft,
                 pushes, calm, last>>

\* the loops of a polling pass, on their own
NextLoop == RunPollLoop

SpecLoop == InitLoop /\ [][NextLoop]_vars

\* ------------------------------------------------------------------ claims
\* the synchronous part of a pass of this kind has just run
PassRan(kind) ==
  last.op = "read" /\ last.kind = kind /\ last.outcome \in {"write", "nochange"}

\* elements with an embedded view whose geometry is within tolerance of a record
WebEls(node, d) == {e \in 1..Len(d) : d[e].webview /\ Matches(node, d[e])}

\* what the latest pass did to element e for the record at position i
Did(t, i, e) ==
  {k \in 1..Len(last.ev) :
     last.ev[k].t = t /\ last.ev[k].node = i /\ last.ev[k].el = e}

Links(nodes) == {i \in 1..Len(nodes) : nodes[i].type = "link"}

\* C1: at most one doPollingWork pass of the instance is in flight (between
\* its begin and the completion of its write) at any time.
C1_NoOverlappingPasses == Cardinality(InFlight("poll")) <= 1

\* C2: a pass that runs right after a completed pass of the same kind, with
\* nothing else having happened since that pass began, decides no write.
C2_SecondPassWritesNothing ==
  (last.op = "read" /\ last.kind \in {"poll", "save"} /\ last.quiet)
     => last.outcome # "write"

\* C3: the engine assigns a stored address to a view's src at most once per
\* record id.
C3_PushAtMostOncePerId == \A id \in Ids : pushes[id] <= 1

\* C3 witness: a record pushed in an earlier pass is observed again after
\* its view went elsewhere; the pass takes the live address and pushes nothing.
C3_Witness ==
  /\ PassRan("poll")
  /\ \E i \in Links(last.snap) :
       /\ pushes[last.snap[i].id] = 1
       /\ last.snap[i].id \in last.init0
       /\ \E e \in WebEls(last.snap[i], last.dom0) :
            /\ last.dom0[e].src # last.snap[i].lastUrl
            /\ Did("set", i, e) # {}
            /\ Did("push", i, e) = {}

\* the record at position i is the one the latest pass marked initialized
FirstSeen(i) ==
  /\ last.snap[i].id \notin last.init0
  /\ WebEls(last.snap[i], last.dom0) # {}
  /\ \A j \in Links(last.snap) :
       (j < i /\ last.snap[j].id = last.snap[i].id)
          => WebEls(last.snap[j], last.dom0) = {}

Least(S) == CHOOSE e \in S : \A o \in S : e <= o
Greatest(S) == CHOOSE e \in S : \A o \in S : e >= o

NonBlank(v) == Truthy(v) /\ Trim(v) # ""

\* C4 as claimed: in the first pass that matches a link record with a
\* non-empty stored lastUrl to an element with an embedded view, that view is
\* pushed and its earlier address does not replace the stored one.
C4_NonEmptyIsPushed ==
  PassRan("poll") =>
    \A i \in Links(last.snap) :
      (Truthy(last.snap[i].lastUrl) /\ last.snap[i].id \notin last.init0)
        => \A e \in WebEls(last.snap[i], last.dom0) :
             Did("push", i, e) # {} /\ Did("set", i, e) = {}

\* C4 amended: in the pass that first observes a link record with a matching
\* embedded view, a stored lastUrl that is not blank is assigned to the src of
\* the first matching view before that view is read back, so that view's
\* earlier address is not stored; no other matching view is pushed, and a
\* lastUrl that is absent, empty or blank is pushed nowhere.
C4_NonBlankIsPushedToFirstView ==
  PassRan("poll") =>
    \A i \in Links(last.snap) :
      FirstSeen(i) =>
        LET els == WebEls(last.snap[i], last.dom0)
            e1 == Least(els) IN
        IF NonBlank(last.snap[i].lastUrl)
        THEN /\ \E k \in Did("push", i, e1) :
                  last.ev[k].val = last.snap[i].lastUrl
             /\ Did("set", i, e1) = {}
             /\ \A e \in els \ {e1} : Did("push", i, e) = {}
             /\ els = {e1} => last.nodes[i].lastUrl = last.snap[i].lastUrl
        ELSE \A e \in els : Did("push", i, e) = {}

\* C4 witness: a first observation of a record whose stored address differs
\* from what its view shows; the view is driven to the stored address.
C4_Witness ==
  /\ PassRan("poll")
  /\ \E i \in Links(last.snap) :
       /\ FirstSeen(i)
       /\ NonBlank(last.snap[i].lastUrl)
       /\ LET e1 == Least(WebEls(last.snap[i], last.dom0)) IN
          /\ last.dom0[e1].src # last.snap[i].lastUrl
          /\ dom[e1].src = last.snap[i].lastUrl
          /\ last.nodes[i].lastUrl = last.snap[i].lastUrl

\* a record as addAndSwitchModel persists it
Created(node) ==
  /\ node.type = "link" /\ node.url = linkUrl
  /\ node.id \in {ToString(k) : k \in 1..(MaxOps + 1)}
  /\ [x |-> node.x, y |-> node.y, width |-> node.width, height |-> node.height]
       = NewGeom

\* a run of saveAllWebviewUrls that got past its read has just ended
SaveEnded ==
  /\ last.kind = "save"
  /\ \/ last.op = "read" /\ last.outcome = "nochange"
     \/ last.op = "write"

\* first link record, in document order, within tolerance of an element
FirstLink(nodes, el) ==
  LET S == {j \in Links(nodes) : Matches(nodes[j], el)} IN
  IF S = {} THEN 0 ELSE Least(S)

\* C5 as claimed: once addAndSwitchModel has persisted its record and a
\* matching element shows another address, one run of saveAllWebviewUrls
\* (its read and its write succeeding) leaves that address in the record's
\* url in the file.
C5_CreateThenSync ==
  (SaveEnded /\ last.outcome \in {"nochange", "saved"}) =>
    \A i \in 1..Len(last.snap) :
      Created(last.snap[i]) =>
        \A e \in WebEls(last.snap[i], last.dom0) :
          last.dom0[e].src # last.snap[i].url
            => /\ file.ok
               /\ i <= Len(file.nodes)
               /\ file.nodes[i].url = last.dom0[e].src

\* C5 amended: a run of saveAllWebviewUrls whose read and write succeed
\* leaves in the file, for every element with an embedded view, the view's
\* address in the url of the first link record matching the element, when no
\* later element resolves to the same record.
C5_SyncsFirstMatchingRecord ==
  (SaveEnded /\ last.outcome \in {"nochange", "saved"}) =>
    \A e \in 1..Len(last.dom0) :
      LET i == FirstLink(last.snap, last.dom0[e]) IN
      (/\ last.dom0[e].webview
       /\ i # 0
       /\ \A e2 \in 1..Len(last.dom0) :
            (e2 > e /\ last.dom0[e2].webview)
               => FirstLink(last.snap, last.dom0[e2]) # i)
        => /\ file.ok
           /\ i <= Len(file.nodes)
           /\ file.nodes[i].url = last.dom0[e].src

\* C5 witness: the record addAndSwitchModel created now holds the address its
\* view showed, which differs from the one it was created with.
C5_Witness ==
  /\ last.kind = "save" /\ last.op = "write" /\ last.outcome = "saved"
  /\ \E i \in 1..Len(last.snap) :
       /\ Created(last.snap[i])
       /\ \E e \in WebEls(last.snap[i], last.dom0) :
            /\ last.dom0[e].src = UrlAbc
            /\ file.nodes[i].url = UrlAbc

\* the field a pass keeps in step with the view: lastUrl for the polling
\* engine, url for saveAllWebviewUrls
Stored(kind, node) == IF kind = "poll" THEN node.lastUrl ELSE node.url

\* the (record, element) pairs the latest pass compared
Pairs(kind) ==
  IF kind = "poll"
  THEN {p \in (1..Len(last.snap)) \X (1..Len(last.dom0)) :
          p[1] \in Links(last.snap) /\ p[2] \in WebEls(last.snap[p[1]], last.dom0)}
  ELSE {p \in (1..Len(last.snap)) \X (1..Len(last.dom0)) :
          last.dom0[p[2]].webview /\ p[1] = FirstLink(last.snap, last.dom0[p[2]])}

AllEqual(kind) ==
  \A p \in Pairs(kind) : Stored(kind, last.snap[p[1]]) = last.dom0[p[2]].src

SetEvents == {k \in 1..Len(last.ev) : last.ev[k].t = "set"}

\* C6: a pass issues a write exactly when it changed a record: a pass in
\* which every stored address already equals its view's address writes
\* nothing, a pass that stored an address goes on to write the whole document,
\* and every record that ends the pass different from what was read is written.
C6_WriteIffChanged ==
  \A kind \in {"poll", "save"} :
    /\ PassRan(kind) =>
         /\ last.outcome = "write" <=> SetEvents # {}
         /\ AllEqual(kind) => last.outcome = "nochange"
         /\ last.nodes # last.snap => last.outcome = "write"
         /\ last.outcome = "write" =>
              \E s \in InFlight(kind) :
                /\ tasks[s].pc = "writing"
                /\ tasks[s].nodes = last.nodes
                /\ Len(tasks[s].nodes) = Len(last.snap)
    /\ (last.op = "write" /\ last.kind = kind /\ last.outcome = "saved") =>
         /\ file.ok
         /\ file.nodes = last.nodes
         /\ Len(file.nodes) = Len(last.snap)

\* C6 witness: a polling pass compared at least one record with its view,
\* found every stored address already equal, and wrote nothing.
C6_Witness ==
  /\ PassRan("poll")
  /\ Pairs("poll") # {}
  /\ AllEqual("poll")
  /\ last.outcome = "nochange"
  /\ InFlight("poll") = {}

\* C7 as claimed: when the read or the parse of the canvas file fails, the
\* pass ends with no write, no navigation of a view and no notice.
C7_ReadFailureIsSilent ==
  (last.op = "read" /\ last.outcome = "readfail") =>
    /\ last.notice = ""
    /\ dom = last.dom0
    /\ hasInitialized = last.init0

\* C8: a pass that starts while the active file is not a canvas file changes
\* nothing: not the file, not a view, not hasInitialized, and it leaves no
\* read or write pending.
C8_NoActiveCanvasIsNoOp ==
  [][(opsLeft' # opsLeft /\ activeFile # "canvas")
       => /\ UNCHANGED <<file, dom, hasInitialized, tasks, pushes>>
          /\ last'.outcome = "nofile"]_vars

\* C8 witness: a polling pass ended at once for want of an active canvas
\* file, with records in the file and elements in the DOM.
C8_Witness ==
  /\ last.op = "begin" /\ last.kind = "poll" /\ last.outcome = "nofile"
  /\ activeFile # "canvas"
  /\ file.ok /\ Links(file.nodes) # {}
  /\ \E e \in 1..Len(dom) : dom[e].webview

\* elements of any kind within tolerance of a record
AllEls(node, d) == {e \in 1..Len(d) : Matches(node, d[e])}

\* C9: a link record with no matching element leaves a polling pass as it
\* was read and is not added to hasInitialized by it, while the records that
\* do have a matching view are processed: each ends the pass holding the
\* address of its last matching view.
C9_UnmatchedRecordSkipped ==
  PassRan("poll") =>
    \A i \in Links(last.snap) :
      AllEls(last.snap[i], last.dom0) = {} =>
        /\ last.nodes[i] = last.snap[i]
        /\ \A k \in 1..Len(last.ev) : last.ev[k].node # i
        /\ last.snap[i].id \in hasInitialized =>
             \/ last.snap[i].id \in last.init0
             \/ \E j \in Links(last.snap) \ {i} :
                  /\ last.snap[j].id = last.snap[i].id
                  /\ WebEls(last.snap[j], last.dom0) # {}
        /\ \A j \in Links(last.snap) :
             LET els == WebEls(last.snap[j], last.dom0) IN
             (/\ els # {}
              /\ \A k \in 1..Len(last.ev) :
                   last.ev[k].t = "push" => last.ev[k].el # Greatest(els))
               => last.nodes[j].lastUrl = last.dom0[Greatest(els)].src

\* C9 witness: in one polling pass a record without an element stayed out of
\* hasInitialized while another record took the new address of its view.
C9_Witness ==
  /\ PassRan("poll")
  /\ \E i, j \in Links(last.snap) :
       /\ AllEls(last.snap[i], last.dom0) = {}
       /\ last.snap[i].id \notin hasInitialized
       /\ \E e \in WebEls(last.snap[j], last.dom0) :
            /\ Did("set", j, e) # {}
            /\ last.nodes[j].lastUrl = last.dom0[e].src
            /\ last.nodes[j].lastUrl # last.snap[j].lastUrl

\* a stored address of the canvas node contains the chat domain
AddressHasChat(i) ==
  \/ Includes(KeyNodes[i].url, "chatgpt.com")
  \/ Includes(KeyNodes[i].unknownDataUrl, "chatgpt.com")

\* the listener of a loaded plugin handled the latest key event
Handled(key) == kev.evt.key = key /\ kev.fx.handled > 0

\* C10: a Backspace handled while the selection holds a record whose address
\* does not contain 'chatgpt.com', and no record whose address does, starts
\* no compensating sequence (no synthetic key event, no timer, no script
\* dispatch) and is not suppressed (preventDefault, stopPropagation and
\* stopImmediatePropagation are not called), so the host's deletion proceeds.
C10_DeletionGuard ==
  (/\ Handled("Backspace")
   /\ kev.sel0 # <<>>
   /\ \A k \in 1..Len(kev.sel0) : ~AddressHasChat(kev.sel0[k]))
    => /\ kev.fx.synth = 0
       /\ kev.fx.timers = <<>>
       /\ kev.fx.calls = <<>>
       /\ kev.fx.trace = <<>>
       /\ ~kev.evt.defaultPrevented
       /\ ~kev.evt.propagationStopped
       /\ ~kev.evt.immediateStopped
       /\ (kev.evt.isTrusted /\ kev.canvas) => kev.default

\* C10 witness: the user's Backspace with only the web page selected was
\* handled by the listener and the host deleted the page's node.
C10_Witness ==
  /\ Handled("Backspace")
  /\ kev.evt.isTrusted /\ kev.canvas
  /\ kev.sel0 = <<2>>
  /\ kev.default
  /\ 2 \notin canvasNodes
  /\ timeouts = <<>> /\ execs = <<>>

\* the latest key event was suppressed or started the compensating sequence
Intercepted ==
  \/ kev.evt.defaultPrevented \/ kev.evt.propagationStopped
  \/ kev.evt.immediateStopped
  \/ kev.fx.synth > 0 \/ kev.fx.timers # <<>> \/ kev.fx.calls # <<>>
  \/ kev.fx.trace # <<>>

\* the guards of the handler, read off the event and the canvas at the time
GuardsHold ==
  /\ kev.evt.isTrusted
  /\ kev.evt.key = "Backspace"
  /\ kev.canvas
  /\ kev.sel0 # <<>>
  /\ \E k \in 1..Len(kev.sel0) : AddressHasChat(kev.sel0[k])

\* C11: a key event is suppressed and the compensating sequence started only
\* if the event is trusted, its key is Backspace, the active view has a
\* canvas with a non-empty selection and a selected record's address
\* contains 'chatgpt.com'; with any guard failing the handler does nothing
\* (no suppression, no synthetic event, no timer, no script dispatch), and
\* with all of them holding a listener does suppress and start the sequence.
C11_AllGuardsOrNothing ==
  /\ Intercepted => GuardsHold
  /\ ~GuardsHold =>
       /\ kev.fx.trace = <<>> /\ kev.fx.synth = 0
       /\ kev.fx.timers = <<>> /\ kev.fx.calls = <<>>
       /\ ~kev.evt.defaultPrevented
  /\ (GuardsHold /\ kev.fx.handled > 0) =>
       /\ kev.evt.defaultPrevented /\ kev.evt.propagationStopped
       /\ kev.evt.immediateStopped
       /\ kev.fx.synth = 1
       /\ ~kev.default

\* C11 witness: a trusted Backspace on a canvas whose selection holds the
\* page and a chat was suppressed and the sequence started.
C11_Witness ==
  /\ GuardsHold
  /\ kev.sel0 = <<2, 1>>
  /\ kev.evt.defaultPrevented
  /\ kev.fx.synth = 1
  /\ Len(timeouts) > 0
  /\ canvasNodes = 1..Len(KeyNodes)

\* positions in the latest event's trace of a call of the given kind
Calls(t) == {k \in 1..Len(kev.fx.trace) : kev.fx.trace[k].t = t}

\* positions of the calls of injectJSLikeModelSwitcher for a node
InjectsOf(i) == {k \in Calls("inject") : kev.fx.trace[k].node = i}

\* C12: on a guarded match the handler first suppresses the event, then
\* dispatches the synthetic Ctrl+Shift+Backspace once, and after that calls
\* the deletion automation exactly once for every selected record whose
\* address contains 'chatgpt.com', in selection order, and for no other
\* selected record.
C12_SuppressThenDispatchThenInject ==
  kev.evt.defaultPrevented =>
    /\ Len(kev.fx.trace) >= 4
    /\ kev.fx.trace[1].t = "preventDefault"
    /\ kev.fx.trace[2].t = "stopPropagation"
    /\ kev.fx.trace[3].t = "stopImmediatePropagation"
    /\ Calls("dispatchEvent") = {4}
    /\ kev.fx.synth = 1
    /\ \A k \in Calls("inject") : k > 4
    /\ \A k \in Calls("inject") : kev.fx.trace[k].node \in Range(kev.sel0)
    /\ \A a \in 1..Len(kev.sel0) :
         Cardinality(InjectsOf(kev.sel0[a])) =
           IF AddressHasChat(kev.sel0[a]) THEN 1 ELSE 0
    /\ \A a, b \in 1..Len(kev.sel0) :
         (a < b /\ AddressHasChat(kev.sel0[a]) /\ AddressHasChat(kev.sel0[b]))
           => \A ka \in InjectsOf(kev.sel0[a]), kb \in InjectsOf(kev.sel0[b]) :
                ka < kb

\* C12 witness: with the page and a chat selected the automation was called
\* for the chat, after the synthetic event, and not for the page.
C12_Witness ==
  /\ kev.evt.defaultPrevented
  /\ kev.sel0 = <<2, 1>>
  /\ Cardinality(Calls("inject")) = 1
  /\ InjectsOf(1) # {} /\ InjectsOf(2) = {}
  /\ \E c \in 1..Len(execs) : execs[c].node = 1

\* C13 as claimed: onunload removes the keydown listener onload added, so a
\* key pressed while the plugin is unloaded is not handled, suppressed or
\* followed by a compensating action, and never more than one listener is on
\* the document.
C13_UnloadRemovesListener ==
  /\ (kev.evt.key # "none" /\ ~kev.loaded) =>
       /\ kev.fx.handled = 0
       /\ ~Intercepted
  /\ ~loaded => listeners = 0
  /\ listeners <= 1

\* geometry of a record
GeomOf(node) ==
  [x |-> node.x, y |-> node.y, width |-> node.width, height |-> node.height]

\* the list is the other list followed by one link record with the url and
\* geometry addAndSwitchModel is given
GrownByOne(nodes, before) ==
  /\ Len(nodes) = Len(before) + 1
  /\ SubSeq(nodes, 1, Len(before)) = before
  /\ nodes[Len(nodes)].type = "link"
  /\ nodes[Len(nodes)].url = linkUrl
  /\ GeomOf(nodes[Len(nodes)]) = NewGeom

\* C14: addAndSwitchModel with a recognized model, on an active canvas file
\* that parses, writes a document whose node list is the node list it read,
\* in the same order, followed by exactly one new record of type 'link' with
\* the given url and geometry, and whose edges are the edges it read; once
\* the write has succeeded that document is the content of the file.
C14_AppendsOneLinkRecord ==
  /\ (last.kind = "add" /\ last.op = "read" /\ last.outcome = "write") =>
       /\ GrownByOne(last.nodes, last.snap)
       /\ \E s \in InFlight("add") :
            /\ tasks[s].pc = "writing"
            /\ tasks[s].nodes = last.nodes
            /\ tasks[s].edges = last.edges0
  /\ (last.kind = "add" /\ last.op = "write" /\ last.outcome = "saved") =>
       /\ file.ok
       /\ GrownByOne(file.nodes, last.snap)
       /\ file.edges = last.edges0

\* C14 witness: a document of three records and an edge was read and is now
\* on file with a fourth record, the new link, and the same edge.
C14_Witness ==
  /\ last.kind = "add" /\ last.op = "write" /\ last.outcome = "saved"
  /\ Len(last.snap) = 3
  /\ last.edges0 # <<>>
  /\ Len(file.nodes) = 4
  /\ file.nodes[4].id = ToString(now)
  /\ file.edges = last.edges0

\* C15 as claimed: after any sequence of addAndSwitchModel calls the records
\* of the document on file have pairwise distinct ids.
C15_IdsAreUnique ==
  file.ok =>
    \A i, j \in 1..Len(file.nodes) :
      i # j => file.nodes[i].id # file.nodes[j].id

\* every component of the two geometries differs by less than half a pixel
WithinHalfPixel(a, b) ==
  /\ 2 * Abs(a.x - b.x) < Px(1)
  /\ 2 * Abs(a.y - b.y) < Px(1)
  /\ 2 * Abs(a.width - b.width) < Px(1)
  /\ 2 * Abs(a.height - b.height) < Px(1)

\* the comparison of injectJSForModelClick and findAllCanvasNodesInDom
\* matches exactly the geometries within half a pixel, either way round
ToleranceIsStrictHalfPixel ==
  "compare" \in probe.done =>
    \A e \in 1..Len(probe.els) :
      /\ probe.matches[e] <=> WithinHalfPixel(probe.node, probe.els[e])
      /\ probe.reverse[e] = probe.matches[e]

\* C16 as claimed: geometry matching, in each place the program does it,
\* matches two geometries iff each of the four absolute differences is
\* strictly less than 0.5, so that a difference of exactly 0.5 is no match and
\* one of 0.25 is, and the relation is symmetric.
C16_StrictHalfPixelTolerance ==
  probe.kind = "match" =>
    /\ ToleranceIsStrictHalfPixel
    /\ "exact" \in probe.done =>
         \A e \in 1..Len(probe.els) :
           probe.exact[e] <=> WithinHalfPixel(probe.node, probe.els[e])

\* the elements of the probe within half a pixel of its record
Candidates == {e \in 1..Len(probe.els) : WithinHalfPixel(probe.node, probe.els[e])}

\* C17: the first-match lookup of the dispatcher returns one element, the
\* first in DOM order of those that match, and the all-matches lookup of the
\* polling engine returns every one of them, in DOM order; so for two
\* elements of identical geometry that match the target the first lookup
\* gives the first of the two and the second gives both.
C17_FirstMatchOneAllMatchesBoth ==
  (probe.kind = "match" /\ {"first", "all"} \subseteq probe.done) =>
    /\ probe.first = IF Candidates = {} THEN 0 ELSE Least(Candidates)
    /\ Range(probe.all) = Candidates
    /\ Len(probe.all) = Cardinality(Candidates)
    /\ \A a, b \in 1..Len(probe.all) : a < b => probe.all[a] < probe.all[b]
    /\ (GeomOf(probe.els[1]) = GeomOf(probe.els[2]) /\ 1 \in Candidates) =>
         /\ probe.first = 1
         /\ probe.all = <<1, 2>>

\* C17 witness: two elements a quarter pixel off the record, at the same
\* place, have been looked up both ways.
C17_Witness ==
  /\ probe.kind = "match" /\ {"first", "all"} \subseteq probe.done
  /\ GeomOf(probe.els[1]) = GeomOf(probe.els[2])
  /\ probe.els[1].x = probe.node.x + 1
  /\ probe.first = 1
  /\ Len(probe.all) = 2

\* the string of the probe has been read by parseTransformToXY
Parsed(shape) ==
  probe.kind = "parse" /\ probe.shape = shape /\ "parse" \in probe.done

\* the string of the probe has been read the inline way
ReadInline(shape) ==
  probe.kind = "parse" /\ probe.shape = shape /\ "inline" \in probe.done

\* a token that matrixRegex takes for a number: characters of [\-\d.] only
IsPlainToken(t) == \A q \in 1..Len(t) : IsNumCh(Ch(t, q))

\* C18: for a matrix3d string of sixteen arguments parseTransformToXY
\* returns the thirteenth argument as x and the fourteenth as y.
C18_Matrix3dGivesThirteenthAndFourteenth ==
  (Parsed("matrix3d") /\ Len(probe.args) = 16) =>
    probe.xy = [x |-> ValueOf(probe.args[13]), y |-> ValueOf(probe.args[14])]

\* what the code does for matrix3d: the translation is returned when the
\* string has fifteen arguments written with digits, sign and point only,
\* and zeros when it has sixteen
Matrix3dOfFifteenOnly ==
  Parsed("matrix3d") =>
    probe.xy = IF /\ Len(probe.args) = 15
                  /\ \A k \in 1..15 : IsPlainToken(probe.args[k])
               THEN [x |-> ValueOf(probe.args[13]),
                     y |-> ValueOf(probe.args[14])]
               ELSE NoXY

\* C19: for a valid matrix string of six arguments the reading of the
\* transform, by parseTransformToXY and by the inline expressions of
\* updateNodeUrlFromDom, returns exactly its fifth argument as x and its
\* sixth as y, negative and fractional values included.
C19_MatrixGivesFifthAndSixth ==
  LET want == [x |-> ValueOf(probe.args[5]), y |-> ValueOf(probe.args[6])] IN
  /\ Parsed("matrix") => probe.xy = want
  /\ ReadInline("matrix") => probe.dom = want

\* what the code does for matrix: parseTransformToXY returns the fifth and
\* sixth arguments when every argument is written with digits, sign and
\* point only and the last is followed at once by the parenthesis
PlainMatrixGivesFifthAndSixth ==
  (/\ Parsed("matrix")
   /\ \A k \in 1..6 : IsPlainToken(probe.args[k])
   /\ Ch(probe.text, Len(probe.text) - 1) # " ") =>
    probe.xy = [x |-> ValueOf(probe.args[5]), y |-> ValueOf(probe.args[6])]

\* the translate calls of the chain of the probe
TranslateCalls == {k \in 1..Len(probe.fns) : probe.fns[k].fn = "translate"}

\* the chain does not begin with a matrix and has one translate call
OneTranslate ==
  /\ Parsed("chain")
  /\ probe.fns[1].fn \notin {"matrix", "matrix3d"}
  /\ Cardinality(TranslateCalls) = 1

\* C20: for a chained transform that does not begin with a matrix or a
\* matrix3d and has a translate call, parseTransformToXY returns the first
\* argument of the call as x and its second as y, or 0 as y when the call
\* has one argument, whatever other functions stand in the chain.
C20_TranslateGivesItsArguments ==
  OneTranslate =>
    LET t == probe.fns[CHOOSE k \in TranslateCalls : TRUE] IN
    probe.xy = [x |-> ValueOf(t.args[1]),
                y |-> IF Len(t.args) >= 2 THEN ValueOf(t.args[2]) ELSE Zero]

\* C20 witness: translate(10px, -5px) followed by a translateX has been
\* read as (10, -5).
C20_Witness ==
  /\ OneTranslate
  /\ probe.text = "translate(10px, -5px) translateX(5px)"
  /\ probe.xy = [x |-> Num(1, 1), y |-> Num(0 - 5, 0)]

\* the number 0, written out
IsZero(v) == v.kind = "num" /\ v.m = 0 /\ v.e = 0

\* C21: parseTransformToXY returns (0, 0) for the empty string and for the
\* string 'none'.
C21_BlankGivesZeros ==
  Parsed("blank") => IsZero(probe.xy.x) /\ IsZero(probe.xy.y)

\* C21 witness: the string 'none' has been read as (0, 0).
C21_Witness ==
  /\ Parsed("blank")
  /\ probe.text = "none"
  /\ IsZero(probe.xy.x) /\ IsZero(probe.xy.y)

\* C22: parseTransformToXY returns for every string, and when the string
\* gives no well-formed list of arguments of a matrix, a matrix3d or a
\* translate, both coordinates it returns are 0.
C22_MalformedGivesZeros ==
  Parsed("malformed") =>
    /\ probe.xy.x.kind \in {"num", "nan", "inf"}
    /\ probe.xy.y.kind \in {"num", "nan", "inf"}
    /\ IsZero(probe.xy.x) /\ IsZero(probe.xy.y)

\* what the code does for such strings: zeros when none of its expressions
\* matches, and otherwise whatever parseFloat makes of the groups, NaN
\* included
MalformedGivesZerosOrNaN ==
  Parsed("malformed") =>
    IF \/ matrixRegex(probe.text).ok
       \/ (allFunctionsRegex(probe.text, 1).ok
             /\ allFunctionsRegex(probe.text, 1).fn = "translate")
    THEN \/ probe.xy.x.kind = "nan" \/ probe.xy.y.kind = "nan"
         \/ ~IsZero(probe.xy.x) \/ ~IsZero(probe.xy.y)
    ELSE IsZero(probe.xy.x) /\ IsZero(probe.xy.y)

\* the chain does not begin with a matrix and has several translate calls
SeveralTranslates ==
  /\ Parsed("chain")
  /\ probe.fns[1].fn \notin {"matrix", "matrix3d"}
  /\ Cardinality(TranslateCalls) >= 2

\* C28: when a chained transform has several translate calls,
\* parseTransformToXY returns the arguments of the last of them in the
\* string.
C28_LastTranslateWins ==
  SeveralTranslates =>
    LET t == probe.fns[Greatest(TranslateCalls)] IN
    probe.xy = [x |-> ValueOf(t.args[1]),
                y |-> IF Len(t.args) >= 2 THEN ValueOf(t.args[2]) ELSE Zero]

\* C28 witness: of translate(10px, -5px) translate(7px) the second call has
\* been returned, as (7, 0).
C28_Witness ==
  /\ SeveralTranslates
  /\ probe.text = "translate(10px, -5px) translate(7px)"
  /\ probe.xy = [x |-> Num(7, 0), y |-> Num(0, 0)]

\* the elements of a page within half a pixel of a geometry
ElementsAt(g, d) == {e \in 1..Len(d) : WithinHalfPixel(g, d[e])}

\* the dispatch for a geometry cannot succeed: no element is at it, or the
\* first one there has no view that executes scripts
CannotDispatch(g, d) ==
  \/ ElementsAt(g, d) = {}
  \/ LET e == Least(ElementsAt(g, d)) IN ~d[e].webview \/ ~d[e].exec

\* C23: when no element matches the geometry of the target, or the element
\* that matches has no view able to execute scripts, the dispatcher executes
\* no script and shows no notice, leaves the document, the page and the
\* calls in flight as they are, and returns.
C23_FailedDispatchDoesNothing ==
  [][(Len(injects') < Len(injects) /\ CannotDispatch(NewGeom, dom)) =>
       /\ last'.op = "inject"
       /\ last'.outcome \in {"notfound", "noexec"}
       /\ last'.notice = ""
       /\ injects' = Tail(injects)
       /\ file' = file /\ dom' = dom /\ tasks' = tasks
       /\ hasInitialized' = hasInitialized /\ activeFile' = activeFile]_vars

\* C23 witness: the dispatcher has returned from a page whose element at
\* the place of the new node had no view.
C23_Witness ==
  /\ last.op = "inject"
  /\ last.outcome = "noexec"
  /\ CannotDispatch(NewGeom, last.dom0)
  /\ ElementsAt(NewGeom, last.dom0) # {}

\* the dispatcher has returned from a page with no element at the place
NotFoundSeen ==
  /\ last.op = "inject"
  /\ last.outcome = "notfound"
  /\ ElementsAt(NewGeom, last.dom0) = {}

\* C24: whenever the host rejects a write of the document, in node creation,
\* in saveAllWebviewUrls or in a polling pass, a notice tells the user so.
\* (That the document keeps its content and the write is not tried again is
\* RejectedWriteKeepsDocument below.)
C24_RejectedWriteIsNoticed ==
  (last.op = "write" /\ last.outcome = "writefail") => last.notice # ""

\* what the code does on a rejected write, whichever call made it: the
\* document keeps its content, the call ends, and no call or timer is begun
RejectedWriteKeepsDocument ==
  [][(Len(tasks') < Len(tasks) /\ last'.op = "write"
        /\ last'.outcome = "writefail") =>
       /\ file' = file
       /\ Len(tasks') = Len(tasks) - 1
       /\ \A s \in 1..Len(tasks') : tasks'[s].pc # "writing"
                                      \/ \E r \in 1..Len(tasks) : tasks[r] = tasks'[s]
       /\ injects' = injects
       /\ timers' = timers]_vars

\* only the calls the user makes tell of a rejected write
RejectedWriteNoticedByCommands ==
  (last.op = "write" /\ last.outcome = "writefail") =>
    (last.notice # "" <=> last.kind \in {"save", "add"})

\* the field a write is made for: the polling pass sets lastUrl, the save
\* command url, node creation no field of a record that exists
TargetOf(kind) ==
  CASE kind = "poll" -> {"lastUrl"}
    [] kind = "save" -> {"url"}
    [] OTHER -> {}

\* a stored document holds the records of another as they were but for some
\* fields, in their order, and its list of edges
KeepsAllBut(stored, nodes0, edges0, fields, grown) ==
  /\ stored.ok
  /\ Len(stored.nodes) = Len(nodes0) + grown
  /\ \A k \in 1..Len(nodes0) :
       /\ DOMAIN stored.nodes[k] = DOMAIN nodes0[k]
       /\ \A f \in DOMAIN nodes0[k] \ fields :
            stored.nodes[k][f] = nodes0[k][f]
  /\ stored.edges = edges0

\* C25: every write of a pass or of node creation stores each record of the
\* document that was read with every field the operation is not about as it
\* was, fields the plugin does not know included, the records in their order
\* and the list of edges as it was.
C25_WritesKeepTheRest ==
  [][(Len(tasks') < Len(tasks) /\ last'.op = "write" /\ last'.outcome = "saved")
       => KeepsAllBut(file', last'.snap, last'.edges0, TargetOf(last'.kind),
                      IF last'.kind = "add" THEN 1 ELSE 0)]_vars

\* C25 witness: a pass has written a document one of whose records carried
\* a colour, a field of another writer; the colour is stored still.
C25_Witness ==
  /\ last.op = "write" /\ last.outcome = "saved" /\ last.kind \in {"poll", "save"}
  /\ \E k \in 1..Len(last.snap) : last.snap[k].color = "1"
  /\ file.ok
  /\ \E k \in 1..Len(file.nodes) : file.nodes[k].color = "1"
  /\ last.nodes # last.snap

\* node creation has written a document with a coloured record and edges
CreationKeepsTheRest ==
  /\ last.op = "write" /\ last.outcome = "saved" /\ last.kind = "add"
  /\ \E k \in 1..Len(last.snap) : last.snap[k].color = "1"
  /\ file.ok /\ file.edges # <<>>
  /\ \E k \in 1..Len(file.nodes) : file.nodes[k].color = "1"

\* the calls of executeJavaScript the latest key event made for a node
CallsFor(i) == {c \in 1..Len(kev.fx.calls) : kev.fx.calls[c].node = i}

\* every selected chat had its dispatch, with the outcome its own element
\* gives it
EachChatHadItsDispatch ==
  (GuardsHold /\ kev.fx.handled > 0) =>
    \A a \in 1..Len(kev.sel0) :
      LET i == kev.sel0[a] IN
      AddressHasChat(i) =>
        /\ InjectsOf(i) # {}
        /\ \A k \in InjectsOf(i) :
             kev.fx.trace[k].out = "execute" <=> ~CannotDispatch(KeyNodes[i], dom)
        /\ Cardinality(CallsFor(i)) =
             IF CannotDispatch(KeyNodes[i], dom) THEN 0 ELSE 1

\* a call of executeJavaScript that settles changes no other call
SettlingTouchesOneCall ==
  \A c \in 1..Len(execs) :
    (execs[c].state = "pending" /\ execs'[c].state # "pending") =>
      /\ Len(execs') = Len(execs)
      /\ \A d \in 1..Len(execs) : d # c => execs'[d] = execs[d]

\* C26: in the deletion interceptor a dispatch that fails for one selected
\* chat (no element at its place, no view able to execute scripts, or
\* executeJavaScript rejected) keeps no other selected chat from having its
\* own dispatch.
C26_FailureOfOneStopsNoOther ==
  []EachChatHadItsDispatch /\ [][SettlingTouchesOneCall]_vars

\* C26 witness: of four chats selected the first had no element and the
\* second no view, the script of the third was rejected, and the fourth had
\* its script executed and its notice.
C26_Witness ==
  /\ GuardsHold
  /\ kev.sel0 = <<4, 3, 1, 5>>
  /\ \E k \in InjectsOf(4) : kev.fx.trace[k].out = "notfound"
  /\ \E k \in InjectsOf(3) : kev.fx.trace[k].out = "noexec"
  /\ \E c, d \in 1..Len(execs) :
       /\ execs[c].node = 1 /\ execs[c].state = "rejected"
       /\ execs[d].node = 5 /\ execs[d].state = "noticed"

\* a pass has just stored its document over one that others had changed
\* since the pass read it
PassWroteOver ==
  /\ Len(tasks') < Len(tasks)
  /\ last'.op = "write" /\ last'.outcome = "saved"
  /\ last'.kind \in {"poll", "save"}
  /\ file.ok /\ file.nodes # last'.snap

\* C27: when another writer (an edit from outside, node creation, another
\* pass) changes the document between the read and the write of a pass that
\* changed a record, the write of the pass stores the whole document as the
\* pass has it, and what the other writer changed is in it no more: a record
\* it added is gone, a field it set is as the pass read or set it.
C27_PassOverwritesOthers ==
  [][PassWroteOver =>
       /\ file'.nodes = last'.nodes
       /\ Len(file'.nodes) = Len(last'.snap)
       /\ \A k \in 1..Len(last'.snap) :
            k <= Len(file.nodes) =>
              \A f \in DOMAIN last'.snap[k] :
                file.nodes[k][f] # last'.snap[k][f] =>
                  IF f \in TargetOf(last'.kind)
                  THEN file'.nodes[k][f] = last'.nodes[k][f]
                  ELSE file'.nodes[k][f] = last'.snap[k][f]]_vars

\* C27 witness: a node was created and stored (its timer is pending), and
\* the pass that had read the document before has since stored its own: the
\* new node is not in the document.
C27_Witness ==
  /\ injects # <<>>
  /\ last.op = "write" /\ last.outcome = "saved" /\ last.kind \in {"poll", "save"}
  /\ file.ok /\ file.nodes = last.nodes
  /\ \A k \in 1..Len(file.nodes) : file.nodes[k].id \in {"n1", "n2", "t1"}

\* the outcomes of node creation that end it before its document is stored
CreationFailures == {"unknown", "nofile", "readfail", "writefail"}

\* a step of node creation has just ended in one of its failures
CreationFailed ==
  /\ opsLeft' # opsLeft \/ Len(tasks') < Len(tasks)
  /\ last'.kind = "add"
  /\ last'.outcome \in CreationFailures

\* C29: a timer for the model selection is set only by the step in which the
\* write of the new node is stored, and it holds one of the three indexes;
\* the dispatcher runs only from such a timer and no sooner than 2000 ms
\* after it was set; node creation that ends on an unknown model name, a
\* missing file, a failed read or parse, or a rejected write sets no timer.
C29_DispatchOnlyAfterStoredWriteAndDelay ==
  [][/\ Len(injects') > Len(injects) =>
          /\ last'.op = "write" /\ last'.kind = "add" /\ last'.outcome = "saved"
          /\ file'.ok /\ file'.nodes = last'.nodes
          /\ injects' = Append(injects, injects'[Len(injects')])
          /\ injects'[Len(injects')].set = now'
          /\ injects'[Len(injects')].idx \in {0, 1, 3}
     /\ Len(injects') < Len(injects) =>
          /\ last'.op = "inject"
          /\ now >= injects[1].set + InjectDelay
     /\ (last'.op = "inject" /\ last' # last) => Len(injects') < Len(injects)
     /\ CreationFailed => injects' = injects]_vars

\* C29 witness: the dispatcher has run for a node whose write was stored,
\* after the clock had passed the delay, and a later creation that was
\* refused for its model name has left no timer behind.
C29_Witness ==
  /\ last.op = "begin" /\ last.kind = "add" /\ last.outcome = "unknown"
  /\ now > InjectDelay
  /\ injects = <<>>
  /\ file.ok
  /\ \E k \in 1..Len(file.nodes) : file.nodes[k].type = "link"

\* the dispatcher has just run, the delay behind it
DispatchSeen ==
  /\ last.op = "inject" /\ last.kind = "add"
  /\ now > InjectDelay

\* a rejected write of node creation has left no timer behind
RejectedCreationSeen ==
  /\ last.op = "write" /\ last.kind = "add" /\ last.outcome = "writefail"
  /\ injects = <<>>

\* C30: the synthetic Ctrl+Shift+Backspace that the handler dispatches runs
\* every keydown listener on the document once more, and each returns at
\* once because the event is not trusted: a trusted Backspace that passes the
\* guards makes one synthetic dispatch, the handler runs once for the user's
\* event and once per listener for the synthetic one, nothing is dispatched
\* from within the synthetic event, and the nesting of dispatches never
\* grows past the two levels, so handling comes to an end.
C30_OneSyntheticDispatchNoRecursion ==
  /\ ~kev.fx.overflow
  /\ kev.fx.synth <= 1
  /\ kev.fx.synth = Cardinality(Calls("dispatchEvent"))
  /\ kev.fx.synth = 0 => kev.fx.handled = kev.listeners
  /\ kev.fx.synth = 1 =>
       /\ kev.fx.handled = 1 + kev.listeners
       /\ Cardinality(Calls("preventDefault")) = 1
       /\ Cardinality(Calls("click")) = 1
  /\ (GuardsHold /\ kev.listeners > 0) => kev.fx.synth = 1
  /\ ~kev.evt.isTrusted => kev.fx.trace = <<>>

\* C30 witness: with two listeners on the document a trusted Backspace on a
\* selected chat was suppressed by the first; the synthetic event ran both
\* and neither acted on it.
C30_Witness ==
  /\ GuardsHold
  /\ kev.listeners = 2
  /\ kev.fx.synth = 1
  /\ kev.fx.handled = 3
  /\ kev.evt.immediateStopped
  /\ Cardinality(Calls("dispatchEvent")) = 1

\* positions in the record of fired timers of a timer of the given kind
Fired(kind) == {k \in 1..Len(fired) : fired[k].kind = kind}

\* C31 as claimed: in the variant that calls deleteSelection, the call is
\* made once, 3000 ms after the Backspace that was suppressed, and after the
\* click on the confirmation button.
C31_DeleteSelectionAfterThreeSeconds ==
  \A k \in Fired("deleteSelection") :
    /\ fired[k].at = kev.at + 3000
    /\ \E j \in Fired("click") : j < k

\* what the code does: the call is made DeleteDelay (2000 ms) after the key,
\* once for a suppressed key, after the click of ClickDelay (1000 ms)
DeleteSelectionAfterDeleteDelay ==
  /\ Cardinality(Fired("deleteSelection")) <= Cardinality(Fired("click"))
  /\ \A k \in Fired("deleteSelection") :
       /\ redelete
       /\ \E j \in Fired("click") :
            /\ j < k
            /\ fired[k].at = fired[j].at + (DeleteDelay - ClickDelay)
  /\ (MaxKeys = 1 /\ Fired("deleteSelection") # {}) =>
       /\ Cardinality(Fired("deleteSelection")) = 1
       /\ \A k \in Fired("deleteSelection") : fired[k].at = kev.at + DeleteDelay

\* the call of deleteSelection has been made
DeleteSelectionSeen == Fired("deleteSelection") # {}

\* the loops of a pass have run over the probed document and page
LoopRan == probe.kind = "loop" /\ probe.done

\* the events of the pass that ran alone
LoopEv == probe.res.ev

\* C32: within one pass the pushes and the updates of stored addresses come
\* in document order: every one for a record at an earlier position comes
\* before any for a record at a later position, and all are for link
\* records; what the pass hands to its one write is the document after the
\* last of them (each record holds the value its last update set).
C32_RecordsInDocumentOrder ==
  LoopRan =>
    /\ \A a, b \in 1..Len(LoopEv) : a < b => LoopEv[a].node <= LoopEv[b].node
    /\ \A a \in 1..Len(LoopEv) :
         /\ LoopEv[a].node \in 1..Len(probe.nodes)
         /\ probe.nodes[LoopEv[a].node].type = "link"
    /\ Len(probe.res.nodes) = Len(probe.nodes)
    /\ \A i \in 1..Len(probe.nodes) :
         LET sets == {a \in 1..Len(LoopEv) :
                        LoopEv[a].t = "set" /\ LoopEv[a].node = i} IN
         IF sets = {} THEN probe.res.nodes[i] = probe.nodes[i]
         ELSE LET z == CHOOSE a \in sets : \A b \in sets : b <= a IN
              probe.res.nodes[i].lastUrl = LoopEv[z].val
    /\ probe.res.changed = (\E a \in 1..Len(LoopEv) : LoopEv[a].t = "set")

\* C32 witness: a pass over two link records pushed the first's address,
\* updated the first and then updated the second.
C32_Witness ==
  /\ LoopRan
  /\ probe.res.changed
  /\ \E a, b, c \in 1..Len(LoopEv) :
       /\ a < b /\ b < c
       /\ LoopEv[a].t = "push" /\ LoopEv[a].node = 1
       /\ LoopEv[b].t = "set" /\ LoopEv[b].node = 1
       /\ LoopEv[c].t = "set" /\ LoopEv[c].node = 2

\* the live timers are the one intervalId names, if it names one
OneTimerOrNone == timers = IF intervalId = 0 THEN {} ELSE {intervalId}

\* a call of start() or stop() that had an effect: a start() sets one new
\* timer where there was none, a stop() clears the one there was
StartOrStopTookEffect ==
  (intervalId' # intervalId \/ timers' # timers \/ nextTimer' # nextTimer) =>
    IF intervalId = 0
    THEN /\ timers = {}
         /\ intervalId' # 0 /\ intervalId' \notin timers
         /\ timers' = {intervalId'}
    ELSE /\ intervalId' = 0
         /\ timers' = {}
         /\ nextTimer' = nextTimer

\* C33: at most one interval timer of a CanvasPolling instance is live: one
\* after a start() that took effect, none after a stop() that took effect
\* and none at first; a start() while a timer is live sets no other.
C33_AtMostOneTimer ==
  /\ [](OneTimerOrNone /\ Cardinality(timers) <= 1)
  /\ [][StartOrStopTookEffect]_vars

\* C33 witness: start(), stop() and start() again: the second timer is the
\* only one live.
C33_Witness ==
  /\ intervalId = 2
  /\ timers = {2}
  /\ nextTimer = 3

\* stop() has returned and start() has not been called since
Stopped == intervalId = 0 /\ timers = {}

\* passes of the polling engine awaiting their read, or their write
PollAt(pc) == {s \in InFlight("poll") : tasks[s].pc = pc}

\* a pass begins only from a live timer
PassBeginsFromLiveTimer ==
  (opsLeft' < opsLeft /\ last'.op = "begin" /\ last'.kind = "poll") =>
    ~Stopped /\ timers # {}

\* the read of a pass settles as it would have with the timer live
StoppedReadRunsTheLoops ==
  (/\ Stopped
   /\ tasks' # tasks
   /\ last'.op = "read" /\ last'.kind = "poll" /\ last'.outcome # "readfail")
    => LET r == PollLoop(Parse(file).nodes, dom, hasInitialized) IN
       /\ ParseOk(file)
       /\ dom' = r.dom
       /\ hasInitialized' = r.init
       /\ last'.ev = r.ev
       /\ last'.outcome = IF r.changed THEN "write" ELSE "nochange"
       /\ r.changed => /\ Len(tasks') = Len(tasks)
                       /\ \E s \in PollAt("reading") :
                            /\ tasks'[s].pc = "writing"
                            /\ tasks'[s].nodes = r.nodes

\* the write of a pass settles as it would have with the timer live
StoppedWriteStores ==
  (/\ Stopped
   /\ Len(tasks') < Len(tasks)
   /\ last'.op = "write" /\ last'.kind = "poll" /\ last'.outcome = "saved")
    => /\ file'.ok
       /\ file'.nodes = last'.nodes
       /\ \E s \in PollAt("writing") : tasks[s].nodes = last'.nodes

\* C34: once stop() has cleared the timer no pass begins; the read and the
\* write of a pass that was in flight then settle as they would have with
\* the timer live: the read runs the loops (pushing stored addresses into
\* views) and the write stores the document.
C34_StopLetsPassInFlightFinish ==
  /\ [][PassBeginsFromLiveTimer]_vars
  /\ [][StoppedReadRunsTheLoops]_vars
  /\ [][StoppedWriteStores]_vars

\* C34 witness: the timer was cleared after a pass began, while it awaits
\* its read; the read can settle, and its loops will change the document,
\* which the pass goes on to write.
C34_Witness ==
  /\ Stopped
  /\ last.op = "begin" /\ last.kind = "poll" /\ last.outcome = "reading"
  /\ PollAt("reading") # {}
  /\ ParseOk(file)
  /\ PollLoop(Parse(file).nodes, dom, hasInitialized).changed
  /\ \A s \in PollAt("reading") : ENABLED PollRead(s, TRUE)

\* the timer was cleared while a pass awaits its read, and the loops of the
\* pass will push a stored address into a view
PushPendingWhileStopped ==
  /\ Stopped
  /\ last.op = "begin" /\ last.kind = "poll" /\ last.outcome = "reading"
  /\ PollAt("reading") # {}
  /\ ParseOk(file)
  /\ LET r == PollLoop(Parse(file).nodes, dom, hasInitialized) IN
     \E k \in 1..Len(r.ev) : r.ev[k].t = "push"

\* the timer is cleared while a pass awaits its write, which can settle
WritePendingWhileStopped ==
  /\ Stopped
  /\ PollAt("writing") # {}
  /\ \A s \in PollAt("writing") : ENABLED PollWrite(s, TRUE)

\* a pass has stored its document with the timer cleared and none begun
\* since
WroteWhileStopped ==
  /\ Stopped
  /\ last.op = "write" /\ last.kind = "poll" /\ last.outcome = "saved"
  /\ file.nodes = last.nodes

\* the elements with a view that match a record of the probed document, in
\* the order of the page
ViewsOf(i) ==
  SelectSeq(findAllCanvasNodesInDom(probe.nodes[i], probe.dom),
            LAMBDA e : probe.dom[e].webview)

\* a link record seen for the first time by the pass, with several views
FirstSeenInSeveralViews(i) ==
  /\ probe.nodes[i].type = "link"
  /\ probe.nodes[i].id \notin probe.init
  /\ Len(ViewsOf(i)) >= 2

\* C35: for a link record not yet initialized that several elements with
\* views match, the pass pushes the stored address (when there is one, not
\* blank) into the view of the first of them in page order and into no
\* other; the views of the others keep the address they showed; the record
\* is marked initialized, so no later pass pushes it; and the stored address
\* the pass ends with is the address the last of the views shows.
C35_PushToFirstPersistLast ==
  LoopRan =>
    \A i \in 1..Len(probe.nodes) :
      FirstSeenInSeveralViews(i) =>
        LET views == ViewsOf(i)
            first == views[1]
            final == views[Len(views)]
            stored == probe.nodes[i].lastUrl
            mine == {k \in 1..Len(LoopEv) :
                       LoopEv[k].t = "push" /\ LoopEv[k].node = i} IN
        /\ \A k \in mine : LoopEv[k].el = first /\ LoopEv[k].val = stored
        /\ Cardinality(mine) =
             IF Truthy(stored) /\ Trim(stored) # "" THEN 1 ELSE 0
        /\ \A v \in 2..Len(views) :
             /\ \A k \in 1..Len(LoopEv) :
                  LoopEv[k].t = "push" => LoopEv[k].el # views[v]
             /\ probe.res.dom[views[v]].src = probe.dom[views[v]].src
        /\ probe.nodes[i].id \in probe.res.init
        /\ probe.res.nodes[i].lastUrl = probe.dom[final].src

\* C35 witness: a record with a stored address and two views showing
\* another address: the first view was navigated to the stored address, the
\* second was not, and the record ends with the second's address.
C35_Witness ==
  /\ LoopRan
  /\ Len(probe.nodes) >= 1 /\ Len(probe.dom) = 2
  /\ FirstSeenInSeveralViews(1)
  /\ probe.nodes[1].lastUrl = UrlAbc
  /\ probe.dom[1].src = UrlOther /\ probe.dom[2].src = UrlOther
  /\ probe.res.dom[1].src = UrlAbc
  /\ probe.res.dom[2].src = UrlOther
  /\ probe.res.nodes[1].lastUrl = UrlOther

\* a stored address is there to push: present and not blank
HasAddress(v) == Truthy(v) /\ Trim(v) # ""

\* the elements with a view that matched a record of the latest pass
SeenViews(i) ==
  SelectSeq(findAllCanvasNodesInDom(last.snap[i], last.dom0),
            LAMBDA e : last.dom0[e].webview)

\* the pushes the latest pass made for a record
PushesFor(i) ==
  {k \in 1..Len(last.ev) : last.ev[k].t = "push" /\ last.ev[k].node = i}

\* a pass marks every link record it sees in a view, whatever its stored
\* address, and pushes nothing for one without an address or marked before
MarkedWhateverTheAddress ==
  PassRan("poll") =>
    \A i \in 1..Len(last.snap) :
      (last.snap[i].type = "link" /\ SeenViews(i) # <<>>) =>
        /\ last.snap[i].id \in hasInitialized
        /\ ~HasAddress(last.snap[i].lastUrl) => PushesFor(i) = {}
        /\ last.snap[i].id \in last.init0 => PushesFor(i) = {}

\* no step pushes the address of a record that is marked
MarkedIsNotPushed ==
  \A id \in Ids :
    id \in hasInitialized =>
      /\ id \in hasInitialized'
      /\ pushes'[id] = pushes[id]

\* C36: a link record is marked initialized by the first pass that sees it
\* in a view, also when its stored address is absent, empty or blank; no
\* pass of the instance pushes an address for a marked record afterwards,
\* whatever address the record has come to store.
C36_BlankRecordIsMarkedAndNeverPushed ==
  /\ []MarkedWhateverTheAddress
  /\ [][MarkedIsNotPushed]_vars

\* C36 witness: a record never pushed was marked while it stored no address
\* to push; it now stores one, another than its view shows, and the pass
\* that just ran did not push it.
C36_Witness ==
  /\ PassRan("poll")
  /\ \E i \in 1..Len(last.snap) :
       /\ last.snap[i].type = "link"
       /\ last.snap[i].id \in last.init0
       /\ pushes[last.snap[i].id] = 0
       /\ HasAddress(last.snap[i].lastUrl)
       /\ SeenViews(i) # <<>>
       /\ last.dom0[SeenViews(i)[1]].src # last.snap[i].lastUrl
       /\ PushesFor(i) = {}
       /\ dom[SeenViews(i)[1]].src = last.dom0[SeenViews(i)[1]].src

\* the fields of a record other than the address last shown
OtherFields(node) == DOMAIN node \ {"lastUrl"}

\* C37: the loops of a pass leave the document they were given with the
\* same records in the same order, every field of every record but lastUrl
\* as it was (url, id, type, geometry and extension fields), and lastUrl
\* as it was in every record that is not a link record or that no element
\* with a view matches.
C37_PassChangesOnlyLastUrlOfSeenLinks ==
  LoopRan =>
    /\ Len(probe.res.nodes) = Len(probe.nodes)
    /\ \A i \in 1..Len(probe.nodes) :
         /\ DOMAIN probe.res.nodes[i] = DOMAIN probe.nodes[i]
         /\ \A f \in OtherFields(probe.nodes[i]) :
              probe.res.nodes[i][f] = probe.nodes[i][f]
         /\ probe.res.nodes[i].lastUrl # probe.nodes[i].lastUrl =>
              /\ probe.nodes[i].type = "link"
              /\ ViewsOf(i) # <<>>

\* C37 witness: a text card and a link record at one place with a view: the
\* pass stored the view's address in the link record and left the card, its
\* stored address another than the view's, as it was.
C37_Witness ==
  /\ LoopRan
  /\ Len(probe.nodes) = 2
  /\ probe.nodes[1].type = "text" /\ probe.nodes[2].type = "link"
  /\ ViewsOf(1) # <<>> /\ ViewsOf(2) = ViewsOf(1)
  /\ probe.dom[ViewsOf(1)[1]].src # probe.nodes[1].lastUrl
  /\ probe.res.nodes[1] = probe.nodes[1]
  /\ probe.res.nodes[2].lastUrl # probe.nodes[2].lastUrl
  /\ probe.res.changed

\* a link record that only an element without a view matches is left as it
\* was
LinkWithoutViewUntouched ==
  /\ LoopRan
  /\ \E i \in 1..Len(probe.nodes) :
       /\ probe.nodes[i].type = "link"
       /\ findAllCanvasNodesInDom(probe.nodes[i], probe.dom) # <<>>
       /\ ViewsOf(i) = <<>>
       /\ probe.res.nodes[i] = probe.nodes[i]

\* the write of a pass stores the records its loops ended with and the
\* edges the pass read: as many records as it read, each differing from the
\* one read in lastUrl at most, and only where it is a link record that an
\* element with a view matched
PollWriteStoresTheFrame ==
  (/\ Len(tasks') < Len(tasks)
   /\ last'.op = "write" /\ last'.kind = "poll" /\ last'.outcome = "saved")
    => /\ file'.ok
       /\ file'.edges = last'.edges0
       /\ Len(file'.nodes) = Len(last'.snap)
       /\ \A i \in 1..Len(last'.snap) :
            /\ \A f \in OtherFields(last'.snap[i]) :
                 file'.nodes[i][f] = last'.snap[i][f]
            /\ file'.nodes[i].lastUrl # last'.snap[i].lastUrl =>
                 /\ last'.snap[i].type = "link"
                 /\ \E e \in 1..Len(last'.dom0) :
                      /\ Matches(last'.snap[i], last'.dom0[e])
                      /\ last'.dom0[e].webview

\* every write of a pass stores the frame
PollWritesStoreTheFrame == [][PollWriteStoresTheFrame]_vars

\* the timer of deleteSelection has just fired
DeleteSelectionFires ==
  /\ Len(fired') = Len(fired) + 1
  /\ fired'[Len(fired')].kind = "deleteSelection"

\* C38: when the timer of deleteSelection fires, DeleteDelay after it was
\* set, the nodes removed are the ones selected at that moment, chats or
\* not, whatever was selected when the key was pressed; nothing stays
\* selected.
C38_DeletesSelectionAtFiring ==
  [][DeleteSelectionFires =>
       /\ redelete
       /\ fired'[Len(fired')].removed = Range(selection)
       /\ canvasNodes' = canvasNodes \ Range(selection)
       /\ selection' = <<>>
       /\ fired'[Len(fired')].at = now
       /\ \E k \in 1..Len(timeouts) :
            /\ timeouts[k].kind = "deleteSelection"
            /\ timeouts[k].due = now
            /\ timeouts' = Remove(timeouts, k)]_vars

\* C38 witness: Backspace was pressed with a chat and the page selected;
\* another node was selected during the delay; the call removed all three,
\* the page among them.
C38_Witness ==
  /\ Fired("deleteSelection") # {}
  /\ kev.sel0 = <<3, 2>>
  /\ \E k \in Fired("deleteSelection") :
       /\ fired[k].removed = {1, 2, 3}
       /\ fired[k].at = kev.at + DeleteDelay
  /\ ~AddressHasChat(2)
  /\ canvasNodes = {4, 5}
  /\ selection = <<>>

\* a node selected when the key was pressed was taken out of the selection
\* during the delay and is still on the canvas after the call
DeselectedNodeSurvives ==
  /\ Fired("deleteSelection") # {}
  /\ kev.sel0 = <<2, 1>>
  /\ \E k \in Fired("deleteSelection") : fired[k].removed = {1}
  /\ 2 \in canvasNodes

\* the elements with a view that match a record of the stored document
LiveViews(i) ==
  SelectSeq(findAllCanvasNodesInDom(file.nodes[i], dom),
            LAMBDA e : dom[e].webview)

\* every link record of the stored document that one element with a view
\* matches stores the address that view shows
OneViewRecordsStored ==
  /\ file.ok
  /\ \A i \in 1..Len(file.nodes) :
       (file.nodes[i].type = "link" /\ Len(LiveViews(i)) = 1) =>
         file.nodes[i].lastUrl = dom[LiveViews(i)[1]].src

\* the polling engine can do its work: the timer is live, a canvas is the
\* active file and its text is a document
PollingCanWork == timers # {} /\ activeFile = "canvas" /\ file.ok

\* a pass stores its document
PassWrites == Len(tasks') < Len(tasks) /\ last'.op = "write"

\* C39 as claimed: with the timer live and the canvas readable for good,
\* and the environment changing no more, from some point on every link
\* record with one matching view stores that view's address, and from some
\* point on no pass writes.
C39_EventuallyConsistentAndQuiet ==
  <>[]PollingCanWork =>
    /\ <>[]OneViewRecordsStored
    /\ <>[][~PassWrites]_vars

\* what holds: the records with one matching view come to store its address
\* for good
EventuallyConsistent == <>[]PollingCanWork => <>[]OneViewRecordsStored

\* no record has two views that show different addresses
ViewsAgree ==
  file.ok =>
    \A i \in 1..Len(file.nodes) :
      file.nodes[i].type = "link" =>
        \A a, b \in 1..Len(LiveViews(i)) :
          dom[LiveViews(i)[a]].src = dom[LiveViews(i)[b]].src

\* where the views of every record agree for good, the writes come to an end
QuietWhereViewsAgree ==
  (<>[]PollingCanWork /\ <>[]ViewsAgree) => <>[][~PassWrites]_vars

====
